---- MODULE Spec2Model ----
(***************************************************************************)
(* Model of the attendance time-calculation engine                         *)
(* (back_end/attendance_calculator.py) and of the request handlers of      *)
(* back_end/app.py that store day records and monthly reports.             *)
(*                                                                         *)
(* Durations (Python timedelta) are integers counting minutes: every       *)
(* duration the calculator builds comes from timedelta(hours=h, minutes=m) *)
(* and is a whole number of minutes, possibly negative.                    *)
(* Text (Python str) is a sequence of one-character strings.               *)
(* Python None is the one-token sequence None, which no text equals.       *)
(***************************************************************************)
EXTENDS Integers, Sequences, FiniteSets, TLC

VARIABLES
    time_str,       \* codec: the text handed to / produced by the codec
    td,             \* codec: the duration handed to / produced by the codec
    td_in,          \* codec: the duration the round trip started from
    codec_pc,       \* codec: "text" | "decoded" | "dur" | "encoded" | "roundtrip" | "idle"
    start_td,       \* late-night calculator: start of the work interval
    end_td,         \* late-night calculator: end of the work interval
    late_night_duration, \* late-night calculator: its result
    ln_pc,          \* late-night calculator: "input" | "done" | "idle"
    record,         \* daily calculator: the day record handed to it
    daily_summary,  \* daily calculator: the summary it returned
    daily_pc,       \* daily calculator: "input" | "done" | "idle"
    thresholds,     \* daily calculator: the two thresholds it is configured with
    daily_records,  \* monthly aggregator: the list of day records handed to it
    monthly_summary,\* monthly aggregator: the summary it returned
    monthly_pc,     \* monthly aggregator: "input" | "done" | "idle"
    monthly_reports,      \* table monthly_reports: a set of rows
    work_records,         \* table work_records: a set of rows
    work_record_details,  \* table work_record_details: rows in insertion order
    daily_reports,        \* table daily_reports: a set of rows
    response,             \* the last request handled and the answer given
    inflight,             \* concurrent requests: payload, position, row read
    schema_unique         \* whether monthly_reports has a UNIQUE key

codec_vars == <<time_str, td, td_in, codec_pc>>

ln_vars == <<start_td, end_td, late_night_duration, ln_pc>>

daily_vars == <<record, daily_summary, daily_pc, thresholds>>

monthly_vars == <<daily_records, monthly_summary, monthly_pc>>

db_vars == <<monthly_reports, work_records, work_record_details, daily_reports>>

app_vars == <<db_vars, response>>

calc_vars == <<codec_vars, ln_vars, daily_vars, monthly_vars>>

race_vars == <<inflight, schema_unique>>

non_app_vars == <<calc_vars, race_vars>>

vars == <<calc_vars, app_vars, race_vars>>

\* what the steps of one component leave alone
non_codec_vars == <<ln_vars, daily_vars, monthly_vars, app_vars, race_vars>>

non_ln_vars == <<codec_vars, daily_vars, monthly_vars, app_vars, race_vars>>

non_daily_vars == <<codec_vars, ln_vars, monthly_vars, app_vars, race_vars>>

non_monthly_vars == <<codec_vars, ln_vars, daily_vars, app_vars, race_vars>>

----------------------------------------------------------------------------
(* Bounds of the model *)

\* longest text handed to the decoder
MaxLen == 5
\* longest duration (minutes) handed to the encoder
MaxDuration == 1500
\* most negative duration (minutes) handed to the encoder
MaxNegative == 2

\* characters of the texts handed to the decoder: digits, the separator,
\* a sign and a letter
Alphabet == {"0", "2", "3", "4", "5", ":", "-", "x"}

----------------------------------------------------------------------------
(* Python values *)

None == <<"None">>

DigitChars == <<"0", "1", "2", "3", "4", "5", "6", "7", "8", "9">>

DigitValues == [c \in {DigitChars[i] : i \in 1..10} |->
                   (CHOOSE i \in 1..10 : DigitChars[i] = c) - 1]

IsDigit(c) == c \in DOMAIN DigitValues

DigitValue(c) == DigitValues[c]

Max(a, b) == IF a >= b THEN a ELSE b

Min(a, b) == IF a <= b THEN a ELSE b

\* str.startswith(prefix)
StartsWith(s, prefix) ==
    /\ Len(s) >= Len(prefix)
    /\ SubSeq(s, 1, Len(prefix)) = prefix

\* str.replace(old, new): every non-overlapping occurrence, left to right
RECURSIVE Replace(_, _, _)
Replace(s, old, new) ==
    IF Len(s) < Len(old) THEN s
    ELSE IF StartsWith(s, old)
         THEN new \o Replace(SubSeq(s, Len(old) + 1, Len(s)), old, new)
         ELSE <<s[1]>> \o Replace(SubSeq(s, 2, Len(s)), old, new)

\* str.split(':'): the parts between the separators (always at least one)
RECURSIVE SplitFrom(_, _, _)
SplitFrom(s, from, i) ==
    IF i > Len(s) THEN <<SubSeq(s, from, Len(s))>>
    ELSE IF s[i] = ":"
         THEN <<SubSeq(s, from, i - 1)>> \o SplitFrom(s, i + 1, i + 1)
         ELSE SplitFrom(s, from, i + 1)

Split(s) == SplitFrom(s, 1, 1)

\* value of a non-empty run of decimal digits
RECURSIVE DigitsValue(_)
DigitsValue(s) ==
    IF Len(s) = 0 THEN 0
    ELSE 10 * DigitsValue(SubSeq(s, 1, Len(s) - 1)) + DigitValue(s[Len(s)])

AllDigits(s) == Len(s) > 0 /\ \A i \in 1..Len(s) : IsDigit(s[i])

\* int(text) accepts an optional sign followed by decimal digits
\* (no whitespace or underscore occurs in the texts of the model);
\* anything else raises ValueError
IsSigned(s) == Len(s) > 0 /\ s[1] \in {"-", "+"}

IntAccepts(s) == IF IsSigned(s) THEN AllDigits(Tail(s)) ELSE AllDigits(s)

IntValue(s) ==
    IF IsSigned(s)
    THEN (IF s[1] = "-" THEN -1 ELSE 1) * DigitsValue(Tail(s))
    ELSE DigitsValue(s)

----------------------------------------------------------------------------
(* AttendanceCalculator: the duration codec *)

\* h, m = map(int, time_str.split(':')) raises ValueError unless there are
\* exactly two parts and int() accepts both
ParseRaises(s) ==
    LET parts == Split(s)
    IN  \/ Len(parts) # 2
        \/ ~IntAccepts(parts[1])
        \/ ~IntAccepts(parts[2])

_parse_time_to_timedelta(t) ==
    IF t = None \/ t = <<>> THEN 0
    ELSE LET is24  == StartsWith(t, <<"2", "4", ":">>)
             s     == IF is24
                      THEN Replace(t, <<"2", "4", ":">>, <<"0", "0", ":">>)
                      ELSE t
             base_delta == IF is24 THEN 24 * 60 ELSE 0
         IN  IF ParseRaises(s) THEN 0
             ELSE LET parts == Split(s)
                  IN  base_delta + 60 * IntValue(parts[1]) + IntValue(parts[2])

\* str(n) for n >= 0
RECURSIVE IntToStr(_)
IntToStr(n) ==
    IF n < 10 THEN <<DigitChars[n + 1]>>
    ELSE IntToStr(n \div 10) \o <<DigitChars[(n % 10) + 1]>>

\* f"{minutes:02d}"
Pad2(n) == IF n < 10 THEN <<"0">> \o IntToStr(n) ELSE IntToStr(n)

\* the encoder with the minutes taken as if d counted seconds
_format_timedelta_seconds(d) ==
    IF d < 0 THEN <<"0", ":", "0", "0">>
    ELSE LET hours   == d \div 60
             minutes == (d % 3600) \div 60
         IN  IntToStr(hours) \o <<":">> \o Pad2(minutes)

_format_timedelta(d) ==
    IF d < 0 THEN <<"0", ":", "0", "0">>
    ELSE LET hours   == d \div 60
             minutes == d % 60
         IN  IntToStr(hours) \o <<":">> \o Pad2(minutes)

----------------------------------------------------------------------------
(* Specification of the codec: every text up to MaxLen is decoded, every   *)
(* duration up to MaxDuration is encoded and decoded again.                *)

Texts == {None} \cup UNION {[1..n -> Alphabet] : n \in 0..MaxLen}

Durations == (0 - MaxNegative)..MaxDuration

IdleCodec ==
    /\ time_str = None
    /\ td = 0
    /\ td_in = 0
    /\ codec_pc = "idle"

IdleLateNight ==
    /\ start_td = 0
    /\ end_td = 0
    /\ late_night_duration = 0
    /\ ln_pc = "idle"

\* STANDARD_WORK_HOURS = timedelta(hours=8)
STANDARD_WORK_HOURS == 8 * 60

\* LEGAL_WORK_HOURS = timedelta(hours=8)
LEGAL_WORK_HOURS == 8 * 60

\* the thresholds as the module defines them
Deployed == [standard |-> STANDARD_WORK_HOURS, legal |-> LEGAL_WORK_HOURS]

IdleDaily ==
    /\ record = None
    /\ daily_summary = None
    /\ daily_pc = "idle"
    /\ thresholds = Deployed

IdleMonthly ==
    /\ daily_records = <<>>
    /\ monthly_summary = None
    /\ monthly_pc = "idle"

\* the database as schema.sql leaves it: no report, no record
IdleApp ==
    /\ monthly_reports = {}
    /\ work_records = {}
    /\ work_record_details = <<>>
    /\ daily_reports = {}
    /\ response = [handler |-> "none", employee_id |-> 0, code |-> 0]

\* no concurrent request
IdleRace ==
    /\ inflight = <<>>
    /\ schema_unique = TRUE

InitCodecInput ==
    \/ /\ codec_pc = "text"
       /\ time_str \in Texts
       /\ td = 0
       /\ td_in = 0
    \/ /\ codec_pc = "dur"
       /\ td \in Durations
       /\ td_in = td
       /\ time_str = None

InitCodec == InitCodecInput /\ IdleLateNight /\ IdleDaily /\ IdleMonthly /\ IdleApp /\ IdleRace

Decode ==
    /\ codec_pc = "text"
    /\ td' = _parse_time_to_timedelta(time_str)
    /\ codec_pc' = "decoded"
    /\ UNCHANGED <<time_str, td_in, non_codec_vars>>

Encode ==
    /\ codec_pc = "dur"
    /\ time_str' = _format_timedelta(td)
    /\ codec_pc' = "encoded"
    /\ UNCHANGED <<td, td_in, non_codec_vars>>

DecodeBack ==
    /\ codec_pc = "encoded"
    /\ td' = _parse_time_to_timedelta(time_str)
    /\ codec_pc' = "roundtrip"
    /\ UNCHANGED <<time_str, td_in, non_codec_vars>>

NextCodec == Decode \/ Encode \/ DecodeBack

SpecCodec == InitCodec /\ [][NextCodec]_vars

----------------------------------------------------------------------------
(* Claims about the codec *)

\* The reference decoder of "H:MM" text, in its most lenient reading: a
\* text is well formed when it is a run of digits, one colon and a run of
\* digits, and then denotes H hours + MM minutes with H taken literally;
\* None, the empty text and every other text denote the zero duration.
WellFormed(t) ==
    /\ t # None
    /\ Len(Split(t)) = 2
    /\ AllDigits(Split(t)[1])
    /\ AllDigits(Split(t)[2])

ReferenceDecode(t) ==
    IF WellFormed(t)
    THEN 60 * DigitsValue(Split(t)[1]) + DigitsValue(Split(t)[2])
    ELSE 0

\* C2: the decoder agrees with the reference decoder on every text: H hours
\* + MM minutes for well-formed text (hours of 24 and above taken
\* literally), the zero duration for None, empty and malformed text.
C2_DecodeAgreesWithReference ==
    codec_pc = "decoded" => td = ReferenceDecode(time_str)

\* C2, on well-formed text only: "24:30" is 24h30m and "25:00" is 25h.
C2_WellFormedDecoded ==
    codec_pc = "decoded" /\ WellFormed(time_str)
        => td = ReferenceDecode(time_str)

C2_Witness24 ==
    /\ codec_pc = "decoded"
    /\ time_str = <<"2", "4", ":", "3", "0">>
    /\ td = 24 * 60 + 30

\* C3: round trip: decoding the encoding of a non-negative duration of
\* less than one day gives the duration back.
C3_RoundTrip ==
    codec_pc = "roundtrip" /\ td_in >= 0 /\ td_in < 24 * 60 => td = td_in

C3_Witness ==
    /\ codec_pc = "roundtrip"
    /\ td_in = 9 * 60 + 5
    /\ time_str = <<"9", ":", "0", "5">>
    /\ td = td_in

----------------------------------------------------------------------------
(* AttendanceCalculator: the late-night overlap calculator *)

\* the late-night bands on the extended timeline, in minutes:
\* 00:00-05:00, 22:00-24:00 and the next day's 00:00-05:00
ln_intervals == << <<0 * 60, 5 * 60>>, <<22 * 60, 24 * 60>>, <<24 * 60, (24 + 5) * 60>> >>

\* the overlap of the work interval with one band
overlap_duration(work_start, work_end, iv) ==
    Max(0, Min(work_end, iv[2]) - Max(work_start, iv[1]))

_calculate_late_night_duration(s, e) ==
    LET work_start == s
        work_end   == IF e < s THEN e + 24 * 60 ELSE e
    IN  overlap_duration(work_start, work_end, ln_intervals[1])
        + overlap_duration(work_start, work_end, ln_intervals[2])
        + overlap_duration(work_start, work_end, ln_intervals[3])

----------------------------------------------------------------------------
(* Specification of the late-night calculator: every start of day time on  *)
(* the grid, every end up to MaxHour o'clock.                              *)

\* grid points per hour of the times handed to the late-night calculator
GridPerHour == 2
\* latest hour of an end time ("29:00" is 05:00 of the next day)
MaxHour == 29

GridTimes(hours) == {(60 * k) \div GridPerHour : k \in 0..(hours * GridPerHour - 1)}

InitLateNightInput ==
    /\ ln_pc = "input"
    /\ start_td \in GridTimes(24)
    /\ end_td \in GridTimes(MaxHour + 1)
    /\ late_night_duration = 0

InitLateNight == InitLateNightInput /\ IdleCodec /\ IdleDaily /\ IdleMonthly /\ IdleApp /\ IdleRace

CalculateLateNight ==
    /\ ln_pc = "input"
    /\ late_night_duration' = _calculate_late_night_duration(start_td, end_td)
    /\ ln_pc' = "done"
    /\ UNCHANGED <<start_td, end_td, non_ln_vars>>

NextLateNight == CalculateLateNight

SpecLateNight == InitLateNight /\ [][NextLateNight]_vars

----------------------------------------------------------------------------
(* Claims about the late-night calculator *)

\* a minute of the timeline lies in the 22:00-05:00 band of its day
InBand(m) == (m % (24 * 60)) < 5 * 60 \/ (m % (24 * 60)) >= 22 * 60

\* the minutes of the worked interval [s, e) that lie in the band, an end
\* numerically below the start being on the next calendar day
BandMinutes(s, e) ==
    LET e2 == IF e < s THEN e + 24 * 60 ELSE e
    IN  Cardinality({m \in s..(e2 - 1) : InBand(m)})

\* C6: for start and end times of day in [0:00, 24:00), the result is
\* exactly the part of the worked interval inside the 22:00-05:00 band of
\* any day the interval covers.
C6_LateNightIsBandOverlap ==
    ln_pc = "done" /\ end_td < 24 * 60
        => late_night_duration = BandMinutes(start_td, end_td)

\* C6, for the shifts that end by 22:00 of the day after they start.
C6_LateNightUpToNextEvening ==
    /\ ln_pc = "done"
    /\ end_td < 24 * 60
    /\ (end_td < start_td => end_td <= 22 * 60)
    => late_night_duration = BandMinutes(start_td, end_td)

C6_WitnessCrossDay ==
    /\ ln_pc = "done"
    /\ start_td = 18 * 60
    /\ end_td = 5 * 60
    /\ late_night_duration = 7 * 60

----------------------------------------------------------------------------
(* AttendanceCalculator: the daily summary calculator *)

SummaryKeys ==
    {"working_hours", "scheduled_work", "statutory_inner_overtime",
     "statutory_outer_overtime", "late_night_work", "holiday_work",
     "late_night_holiday_work"}

\* the summary returned at once when start and end both decode to zero
\* with every bucket written "00:00"
ZeroSummary_padded == [k \in SummaryKeys |-> <<"0", "0", ":", "0", "0">>]

\* the summary returned at once when start and end both decode to zero
ZeroSummary == [k \in SummaryKeys |-> <<"0", ":", "0", "0">>]

\* bool(x) of a str-or-None value
Truthy(x) == x # None /\ x # <<>>

\* the span taken as the distance between the two times
total_duration_distance(s, e) ==
    IF e < s THEN s - e ELSE e - s

total_duration(s, e) ==
    IF e < s THEN (24 * 60 - s) + e ELSE e - s

actual_work_duration(s, e, b, nb) == Max(0, total_duration(s, e) - b - nb)

late_night_work_duration(s, e, nb) ==
    Max(0, _calculate_late_night_duration(s, e) - nb)

\* holiday when only both the type and the calendar say so
is_holiday_and(r) == Truthy(r.holiday_type) /\ r.is_holiday_from_calendar

is_holiday(r) == Truthy(r.holiday_type) \/ r.is_holiday_from_calendar

\* the scheduled part without the min
scheduled_work_nomin(actual) == STANDARD_WORK_HOURS

scheduled_work(actual) == Min(actual, STANDARD_WORK_HOURS)

total_overtime(actual) == Max(0, actual - scheduled_work(actual))

inner_overtime_limit == LEGAL_WORK_HOURS - STANDARD_WORK_HOURS

statutory_inner_overtime(actual) ==
    Min(total_overtime(actual), inner_overtime_limit)

statutory_outer_overtime(actual) ==
    Max(0, total_overtime(actual) - statutory_inner_overtime(actual))

\* the summary with late_night_work filled before the holiday test
calculate_daily_summary_both(r) ==
    LET s  == _parse_time_to_timedelta(r.start_time)
        e  == _parse_time_to_timedelta(r.end_time)
        b  == _parse_time_to_timedelta(r.break_time)
        nb == _parse_time_to_timedelta(r.night_break_time)
        actual == actual_work_duration(s, e, b, nb)
        ln     == late_night_work_duration(s, e, nb)
        result ==
            IF is_holiday(r)
            THEN [working_hours            |-> actual,
                  scheduled_work           |-> 0,
                  statutory_inner_overtime |-> 0,
                  statutory_outer_overtime |-> 0,
                  late_night_work          |-> ln,
                  holiday_work             |-> actual,
                  late_night_holiday_work  |-> ln]
            ELSE [working_hours            |-> actual,
                  scheduled_work           |-> scheduled_work(actual),
                  statutory_inner_overtime |-> statutory_inner_overtime(actual),
                  statutory_outer_overtime |-> statutory_outer_overtime(actual),
                  late_night_work          |-> ln,
                  holiday_work             |-> 0,
                  late_night_holiday_work  |-> 0]
    IN  IF s = 0 /\ e = 0 THEN ZeroSummary
        ELSE [k \in SummaryKeys |-> _format_timedelta(result[k])]

calculate_daily_summary(r) ==
    LET s  == _parse_time_to_timedelta(r.start_time)
        e  == _parse_time_to_timedelta(r.end_time)
        b  == _parse_time_to_timedelta(r.break_time)
        nb == _parse_time_to_timedelta(r.night_break_time)
        actual == actual_work_duration(s, e, b, nb)
        ln     == late_night_work_duration(s, e, nb)
        result ==
            IF is_holiday(r)
            THEN [working_hours            |-> actual,
                  scheduled_work           |-> 0,
                  statutory_inner_overtime |-> 0,
                  statutory_outer_overtime |-> 0,
                  late_night_work          |-> 0,
                  holiday_work             |-> actual,
                  late_night_holiday_work  |-> ln]
            ELSE [working_hours            |-> actual,
                  scheduled_work           |-> scheduled_work(actual),
                  statutory_inner_overtime |-> statutory_inner_overtime(actual),
                  statutory_outer_overtime |-> statutory_outer_overtime(actual),
                  late_night_work          |-> ln,
                  holiday_work             |-> 0,
                  late_night_holiday_work  |-> 0]
    IN  IF s = 0 /\ e = 0 THEN ZeroSummary
        ELSE [k \in SummaryKeys |-> _format_timedelta(result[k])]

----------------------------------------------------------------------------
(* Specification of the daily calculator: one day record drawn from the    *)
(* texts below, summarised once.                                           *)

\* "HH:MM" as the screens send it: two-digit hours, two-digit minutes
ClockText(m) == Pad2(m \div 60) \o <<":">> \o Pad2(m % 60)

\* a text no decoder accepts, and a text with a signed hour
Malformed == <<"x">>

SignedText == <<"-", "1", ":", "0", "0">>

\* holiday_type '法定休' (statutory holiday), as one token
HOLIDAY_STATUTORY == <<"houtei-kyuu">>

TimeTexts ==
    {None, <<>>, Malformed, SignedText} \cup {ClockText(60 * h) : h \in 0..MaxHour}

BreakTexts == {None, ClockText(60), ClockText(45), SignedText}

NightBreakTexts == {None, ClockText(30), ClockText(120)}

HolidayTypes == {None, <<>>, HOLIDAY_STATUTORY}

DayRecords ==
    [start_time : TimeTexts, end_time : TimeTexts, break_time : BreakTexts,
     night_break_time : NightBreakTexts, holiday_type : HolidayTypes,
     is_holiday_from_calendar : BOOLEAN]

InitDailyInput ==
    /\ daily_pc = "input"
    /\ record \in DayRecords
    /\ daily_summary = None
    /\ thresholds = Deployed

InitDaily == InitDailyInput /\ IdleCodec /\ IdleLateNight /\ IdleMonthly /\ IdleApp /\ IdleRace

CalculateDaily ==
    /\ daily_pc = "input"
    /\ daily_summary' = calculate_daily_summary(record)
    /\ daily_pc' = "done"
    /\ UNCHANGED <<record, thresholds, non_daily_vars>>

NextDaily == CalculateDaily

SpecDaily == InitDaily /\ [][NextDaily]_vars

----------------------------------------------------------------------------
(* Claims about the daily calculator *)

Absent(x) == x = None \/ x = <<>>

Zero == <<"0", ":", "0", "0">>

\* the duration a bucket text denotes, by the reference decoder
Minutes(t) == ReferenceDecode(t)

\* a bucket text in "H:MM" form: digits, a colon, two digits below 60
IsHMM(t) ==
    /\ WellFormed(t)
    /\ Len(Split(t)[2]) = 2
    /\ DigitsValue(Split(t)[2]) < 60

NonHolidayInput(r) == Absent(r.holiday_type) /\ ~r.is_holiday_from_calendar

\* C1: when start_time and end_time are both absent (None or empty), all
\* seven buckets are "0:00", whatever the breaks and the holiday inputs.
C1_AbsentTimesGiveZero ==
    daily_pc = "done" /\ Absent(record.start_time) /\ Absent(record.end_time)
        => \A k \in SummaryKeys : daily_summary[k] = Zero

C1_Witness ==
    /\ daily_pc = "done"
    /\ record.start_time = None
    /\ record.end_time = <<>>
    /\ record.break_time = ClockText(60)
    /\ record.night_break_time = ClockText(30)
    /\ record.holiday_type = HOLIDAY_STATUTORY
    /\ record.is_holiday_from_calendar
    /\ \A k \in SummaryKeys : daily_summary[k] = Zero

\* C4: on a non-holiday day scheduled_work = min(working_hours, 8h),
\* statutory_inner_overtime = 0, statutory_outer_overtime = working_hours -
\* scheduled_work, so the three add up to working_hours, and both holiday
\* buckets are zero.
C4_NonHolidaySplit ==
    daily_pc = "done" /\ NonHolidayInput(record)
        => LET wh == Minutes(daily_summary.working_hours)
               sw == Minutes(daily_summary.scheduled_work)
               io == Minutes(daily_summary.statutory_inner_overtime)
               oo == Minutes(daily_summary.statutory_outer_overtime)
           IN  /\ sw = Min(wh, 8 * 60)
               /\ io = 0
               /\ oo = wh - sw
               /\ sw + io + oo = wh
               /\ daily_summary.holiday_work = Zero
               /\ daily_summary.late_night_holiday_work = Zero

\* 09:00-19:00 with a one hour break: 9:00 worked, 8:00 scheduled, 1:00 outer
C4_WitnessOvertime ==
    /\ daily_pc = "done"
    /\ NonHolidayInput(record)
    /\ record.start_time = ClockText(9 * 60)
    /\ record.end_time = ClockText(19 * 60)
    /\ record.break_time = ClockText(60)
    /\ record.night_break_time = None
    /\ daily_summary.working_hours = <<"9", ":", "0", "0">>
    /\ daily_summary.scheduled_work = <<"8", ":", "0", "0">>
    /\ daily_summary.statutory_inner_overtime = Zero
    /\ daily_summary.statutory_outer_overtime = <<"1", ":", "0", "0">>

\* the same day record on a working day
AsWorkingDay(r) ==
    [r EXCEPT !.holiday_type = None, !.is_holiday_from_calendar = FALSE]

\* C5: a day is a holiday exactly when holiday_type is present or the
\* calendar flag is true. On a holiday holiday_work equals working_hours,
\* late_night_holiday_work is the late-night portion (what late_night_work
\* is for the same times on a working day) and the four other buckets are
\* zero; on any other day both holiday buckets are zero.
C5_HolidayBuckets ==
    daily_pc = "done"
        => IF Truthy(record.holiday_type) \/ record.is_holiday_from_calendar
           THEN /\ daily_summary.holiday_work = daily_summary.working_hours
                /\ daily_summary.late_night_holiday_work
                       = calculate_daily_summary(AsWorkingDay(record)).late_night_work
                /\ daily_summary.scheduled_work = Zero
                /\ daily_summary.statutory_inner_overtime = Zero
                /\ daily_summary.statutory_outer_overtime = Zero
                /\ daily_summary.late_night_work = Zero
           ELSE /\ daily_summary.holiday_work = Zero
                /\ daily_summary.late_night_holiday_work = Zero

\* a statutory holiday worked 18:00-05:00 with 1:00 break and 0:30 night break
C5_WitnessHolidayNight ==
    /\ daily_pc = "done"
    /\ record.holiday_type = HOLIDAY_STATUTORY
    /\ ~record.is_holiday_from_calendar
    /\ record.start_time = ClockText(18 * 60)
    /\ record.end_time = ClockText(5 * 60)
    /\ record.break_time = ClockText(60)
    /\ record.night_break_time = ClockText(30)
    /\ daily_summary.working_hours = <<"9", ":", "3", "0">>
    /\ daily_summary.holiday_work = <<"9", ":", "3", "0">>
    /\ daily_summary.late_night_holiday_work = <<"6", ":", "3", "0">>
    /\ daily_summary.scheduled_work = Zero

\* the day record with every malformed time text taken as no data
ZeroIfMalformed(t) == IF t = None \/ WellFormed(t) THEN t ELSE None

Sanitised(r) ==
    [r EXCEPT !.start_time = ZeroIfMalformed(r.start_time),
              !.end_time = ZeroIfMalformed(r.end_time),
              !.break_time = ZeroIfMalformed(r.break_time),
              !.night_break_time = ZeroIfMalformed(r.night_break_time)]

\* C7: for every combination of absent, malformed and well-formed time
\* fields and holiday inputs the summary has exactly the seven buckets,
\* each a non-negative duration in "H:MM" form, and malformed time text
\* counts as the zero duration.
C7_TotalAndMalformedIsZero ==
    daily_pc = "done"
        => /\ DOMAIN daily_summary = SummaryKeys
           /\ \A k \in SummaryKeys : IsHMM(daily_summary[k])
           /\ daily_summary = calculate_daily_summary(Sanitised(record))

\* C7, without the clause on malformed text: seven buckets in "H:MM" form.
C7_SevenBucketsInHMM ==
    daily_pc = "done"
        => /\ DOMAIN daily_summary = SummaryKeys
           /\ \A k \in SummaryKeys : IsHMM(daily_summary[k])

----------------------------------------------------------------------------
(* AttendanceCalculator: the monthly summary aggregator                    *)
(*                                                                         *)
(* The four counters the code keeps as floats (absent_days, paid_holidays, *)
(* compensatory_holidays, transfer_holidays) count half-days here: 1.0 is  *)
(* 2 and 0.5 is 1. The other counters count whole days.                    *)

\* attendance_type and holiday_type labels, each one token
ATT_ABSENCE == <<"kekkin">>            \* '欠勤'

ATT_PAID_LEAVE == <<"yuukyuu">>        \* '有休'

ATT_HALF == <<"hankyuu">>              \* '半休'

ATT_HALF_PAID == <<"han-yuukyuu">>     \* '半有休'

ATT_HALF_AM == <<"AM-hankyuu">>        \* 'AM半休'

ATT_HALF_PM == <<"PM-hankyuu">>        \* 'PM半休'

ATT_COMPENSATORY == <<"daikyuu">>      \* '代休'

ATT_TRANSFER == <<"furikyuu">>         \* '振休'

ATT_LATE == <<"chikoku">>              \* '遅刻'

ATT_EARLY_LEAVE == <<"soutai">>        \* '早退'

ATT_FLEX == <<"flex">>                 \* 'フレックス'

ATT_DIRECT == <<"chokkou-chokki">>     \* '直行/直帰'

ATT_NORMAL == <<"tsuujou">>            \* '通常', a label outside the table

HOLIDAY_SCHEDULED == <<"shotei-kyuu">> \* '所定休'

HOLIDAY_SPECIAL == <<"tokubetsu-kyuu">> \* '特別休'

HALF_DAY_ATTENDANCE_TYPES == {ATT_HALF, ATT_HALF_PAID, ATT_HALF_AM, ATT_HALF_PM}

DayCountKeys ==
    {"working_days", "absent_days", "holiday_work_days", "paid_holidays",
     "compensatory_holidays", "transfer_holidays", "late_days",
     "early_leave_days", "flex_days", "direct_travel_days",
     "statutory_holidays", "scheduled_holidays", "special_holidays"}

TotalName ==
    [working_hours            |-> "total_working_hours",
     scheduled_work           |-> "total_scheduled_work",
     statutory_inner_overtime |-> "total_statutory_inner_overtime",
     statutory_outer_overtime |-> "total_statutory_outer_overtime",
     late_night_work          |-> "total_late_night_work",
     holiday_work             |-> "total_holiday_work",
     late_night_holiday_work  |-> "total_late_night_holiday_work"]

TotalKeys == {TotalName[k] : k \in SummaryKeys}

\* dict.get(key, default)
Get(d, key, default) == IF key \in DOMAIN d THEN d[key] ELSE default

\* 1.0 for every attendance type, in half-days
day_to_add_full(att_type) == 2

\* 0.5 if att_type in HALF_DAY_ATTENDANCE_TYPES else 1.0, in half-days
day_to_add(att_type) ==
    IF att_type \in HALF_DAY_ATTENDANCE_TYPES THEN 1 ELSE 2

\* the counter an attendance_type adds to, or "" when it adds to none
attendance_counter(att_type) ==
    IF att_type = ATT_ABSENCE THEN "absent_days"
    ELSE IF att_type = ATT_PAID_LEAVE \/ att_type \in HALF_DAY_ATTENDANCE_TYPES
         THEN "paid_holidays"
    ELSE IF att_type = ATT_COMPENSATORY THEN "compensatory_holidays"
    ELSE IF att_type = ATT_TRANSFER THEN "transfer_holidays"
    ELSE IF att_type = ATT_LATE THEN "late_days"
    ELSE IF att_type = ATT_EARLY_LEAVE THEN "early_leave_days"
    ELSE IF att_type = ATT_FLEX THEN "flex_days"
    ELSE IF att_type = ATT_DIRECT THEN "direct_travel_days"
    ELSE ""

\* what an attendance_type adds to its counter
attendance_amount(att_type) ==
    IF attendance_counter(att_type)
           \in {"absent_days", "paid_holidays", "compensatory_holidays",
                "transfer_holidays"}
    THEN day_to_add(att_type)
    ELSE 1

\* the counter a holiday_type adds 1 to, or "" when it adds to none
holiday_counter(hol_type) ==
    IF hol_type = HOLIDAY_STATUTORY THEN "statutory_holidays"
    ELSE IF hol_type = HOLIDAY_SCHEDULED THEN "scheduled_holidays"
    ELSE IF hol_type = HOLIDAY_SPECIAL THEN "special_holidays"
    ELSE ""

\* a bucket counts the day when it is not below zero
bucket_positive_or_zero(summary, key) ==
    _parse_time_to_timedelta(Get(summary, key, <<"0", ":", "0", "0">>)) >= 0

\* the day's bucket decodes to more than zero
bucket_positive(summary, key) ==
    _parse_time_to_timedelta(Get(summary, key, <<"0", ":", "0", "0">>)) > 0

\* the body of the loop with the day's buckets replacing the running totals
add_day_last(acc, rec) ==
    LET summary == rec.daily_summary
        counts1 == [k \in DayCountKeys |->
                       acc.day_counts[k]
                       + (IF k = "working_days"
                             /\ bucket_positive(summary, "working_hours")
                          THEN 1 ELSE 0)
                       + (IF k = "holiday_work_days"
                             /\ bucket_positive(summary, "holiday_work")
                          THEN 1 ELSE 0)
                       + (IF k = attendance_counter(rec.attendance_type)
                          THEN attendance_amount(rec.attendance_type) ELSE 0)
                       + (IF k = holiday_counter(rec.holiday_type)
                          THEN 1 ELSE 0)]
        totals1 == [k \in SummaryKeys |->
                       IF k \in DOMAIN summary
                       THEN _parse_time_to_timedelta(summary[k])
                       ELSE acc.time_totals[k]]
    IN  [day_counts |-> counts1, time_totals |-> totals1]

\* the body of the loop: one day record added to the running counts and totals
add_day(acc, rec) ==
    LET summary == rec.daily_summary
        counts1 == [k \in DayCountKeys |->
                       acc.day_counts[k]
                       + (IF k = "working_days"
                             /\ bucket_positive(summary, "working_hours")
                          THEN 1 ELSE 0)
                       + (IF k = "holiday_work_days"
                             /\ bucket_positive(summary, "holiday_work")
                          THEN 1 ELSE 0)
                       + (IF k = attendance_counter(rec.attendance_type)
                          THEN attendance_amount(rec.attendance_type) ELSE 0)
                       + (IF k = holiday_counter(rec.holiday_type)
                          THEN 1 ELSE 0)]
        totals1 == [k \in SummaryKeys |->
                       acc.time_totals[k]
                       + (IF k \in DOMAIN summary
                          THEN _parse_time_to_timedelta(summary[k]) ELSE 0)]
    IN  [day_counts |-> counts1, time_totals |-> totals1]

RECURSIVE fold_days(_, _)
fold_days(acc, records) ==
    IF records = <<>> THEN acc
    ELSE fold_days(add_day(acc, Head(records)), Tail(records))

calculate_monthly_summary(records) ==
    LET acc == fold_days([day_counts  |-> [k \in DayCountKeys |-> 0],
                          time_totals |-> [k \in SummaryKeys |-> 0]],
                         records)
    IN  [k \in DayCountKeys \cup TotalKeys |->
            IF k \in DayCountKeys THEN acc.day_counts[k]
            ELSE LET key == CHOOSE b \in SummaryKeys : TotalName[b] = k
                 IN  _format_timedelta(acc.time_totals[key])]

----------------------------------------------------------------------------
(* Specification of the monthly aggregator: one list of DayLists,          *)
(* summarised once.                                                        *)

\* most day records in one list
MaxDays == 3
\* most day records in a list that ranges over every attendance type
MaxTypedDays == 2

Day(summary, att_type, hol_type) ==
    [daily_summary |-> summary, attendance_type |-> att_type,
     holiday_type |-> hol_type]

\* a daily summary that carries only three of the buckets
PartialSummary(worked, scheduled, outer) ==
    [k \in {"working_hours", "scheduled_work", "statutory_outer_overtime"} |->
        IF k = "working_hours" THEN _format_timedelta(worked)
        ELSE IF k = "scheduled_work" THEN _format_timedelta(scheduled)
        ELSE _format_timedelta(outer)]

EmptySummary == [k \in {} |-> Zero]

WorkedDay(s, e, b, nb, hol_type, cal) ==
    [start_time |-> ClockText(s), end_time |-> ClockText(e),
     break_time |-> ClockText(b), night_break_time |-> ClockText(nb),
     holiday_type |-> hol_type, is_holiday_from_calendar |-> cal]

\* a late shift 14:15-23:00 with 0:45 break, and a statutory holiday worked
\* 18:00-05:00 with 1:00 break and 0:30 night break
LateShiftSummary ==
    calculate_daily_summary(WorkedDay(14 * 60 + 15, 23 * 60, 45, 0, None, FALSE))

HolidayNightSummary ==
    calculate_daily_summary(
        WorkedDay(18 * 60, 5 * 60, 60, 30, HOLIDAY_STATUTORY, FALSE))

AttendanceTypes ==
    {None, ATT_NORMAL, ATT_ABSENCE, ATT_PAID_LEAVE, ATT_COMPENSATORY,
     ATT_TRANSFER, ATT_LATE, ATT_EARLY_LEAVE, ATT_FLEX, ATT_DIRECT}
        \cup HALF_DAY_ATTENDANCE_TYPES

\* day records that differ in their daily summary
SummaryDays ==
    {Day(PartialSummary(8 * 60, 8 * 60, 0), ATT_NORMAL, None),
     Day(PartialSummary(9 * 60, 8 * 60, 60), ATT_NORMAL, None),
     Day(EmptySummary, ATT_PAID_LEAVE, None),
     Day(ZeroSummary, ATT_ABSENCE, None),
     Day(LateShiftSummary, ATT_LATE, None),
     Day(LateShiftSummary, ATT_HALF_AM, None),
     Day(HolidayNightSummary, None, HOLIDAY_STATUTORY),
     Day(HolidayNightSummary, ATT_NORMAL, HOLIDAY_SCHEDULED),
     Day(EmptySummary, None, HOLIDAY_SPECIAL)}

\* day records of every attendance type
DayInputs == SummaryDays \cup {Day(EmptySummary, a, None) : a \in AttendanceTypes}

\* lists of up to MaxDays records among SummaryDays, and of up to
\* MaxTypedDays records among all of DayInputs
DayLists ==
    UNION {[1..n -> SummaryDays] : n \in 0..MaxDays}
        \cup UNION {[1..n -> DayInputs] : n \in 0..MaxTypedDays}

InitMonthlyInput ==
    /\ monthly_pc = "input"
    /\ daily_records \in DayLists
    /\ monthly_summary = None

InitMonthly == InitMonthlyInput /\ IdleCodec /\ IdleLateNight /\ IdleDaily /\ IdleApp /\ IdleRace

CalculateMonthly ==
    /\ monthly_pc = "input"
    /\ monthly_summary' = calculate_monthly_summary(daily_records)
    /\ monthly_pc' = "done"
    /\ UNCHANGED <<daily_records, non_monthly_vars>>

NextMonthly == CalculateMonthly

SpecMonthly == InitMonthly /\ [][NextMonthly]_vars

----------------------------------------------------------------------------
(* Claims about the monthly aggregator *)

\* the duration of bucket k of a day, zero when the summary lacks it
BucketMinutes(rec, k) ==
    IF k \in DOMAIN rec.daily_summary THEN Minutes(rec.daily_summary[k]) ELSE 0

RECURSIVE SumOfBucket(_, _)
SumOfBucket(records, k) ==
    IF records = <<>> THEN 0
    ELSE BucketMinutes(Head(records), k) + SumOfBucket(Tail(records), k)

DaysWith(records, k) ==
    Cardinality({i \in 1..Len(records) : BucketMinutes(records[i], k) > 0})

\* C8: each total_<field> is the sum of that field over all days,
\* working_days is the number of days with working_hours > 0 and
\* holiday_work_days the number of days with holiday_work > 0.
C8_TotalsAreSums ==
    monthly_pc = "done"
        => /\ \A k \in SummaryKeys :
                  Minutes(monthly_summary[TotalName[k]])
                      = SumOfBucket(daily_records, k)
           /\ monthly_summary.working_days
                  = DaysWith(daily_records, "working_hours")
           /\ monthly_summary.holiday_work_days
                  = DaysWith(daily_records, "holiday_work")

\* two working days (8h, 9h with 1h outer overtime) and one paid leave
C8_WitnessThreeDays ==
    /\ monthly_pc = "done"
    /\ daily_records
           = <<Day(PartialSummary(8 * 60, 8 * 60, 0), ATT_NORMAL, None),
               Day(PartialSummary(9 * 60, 8 * 60, 60), ATT_NORMAL, None),
               Day(EmptySummary, ATT_PAID_LEAVE, None)>>
    /\ monthly_summary.working_days = 2
    /\ monthly_summary.paid_holidays = 2
    /\ monthly_summary.total_working_hours = <<"1", "7", ":", "0", "0">>
    /\ monthly_summary.total_statutory_outer_overtime = <<"1", ":", "0", "0">>

\* the attendance counters of the monthly summary
AttendanceCounters ==
    {"absent_days", "paid_holidays", "compensatory_holidays",
     "transfer_holidays", "late_days", "early_leave_days", "flex_days",
     "direct_travel_days"}

\* the table of the claim: what one day of an attendance type adds to a
\* counter (half-days for the first four counters, days for the others)
TableAdds(att_type, counter) ==
    IF att_type = ATT_ABSENCE /\ counter = "absent_days" THEN 2
    ELSE IF att_type = ATT_PAID_LEAVE /\ counter = "paid_holidays" THEN 2
    ELSE IF att_type \in {ATT_HALF, ATT_HALF_PAID, ATT_HALF_AM, ATT_HALF_PM}
            /\ counter = "paid_holidays" THEN 1
    ELSE IF att_type = ATT_COMPENSATORY /\ counter = "compensatory_holidays" THEN 2
    ELSE IF att_type = ATT_TRANSFER /\ counter = "transfer_holidays" THEN 2
    ELSE IF att_type = ATT_LATE /\ counter = "late_days" THEN 1
    ELSE IF att_type = ATT_EARLY_LEAVE /\ counter = "early_leave_days" THEN 1
    ELSE IF att_type = ATT_FLEX /\ counter = "flex_days" THEN 1
    ELSE IF att_type = ATT_DIRECT /\ counter = "direct_travel_days" THEN 1
    ELSE 0

RECURSIVE SumOfTable(_, _)
SumOfTable(records, counter) ==
    IF records = <<>> THEN 0
    ELSE TableAdds(Head(records).attendance_type, counter)
             + SumOfTable(Tail(records), counter)

\* C9: each day's attendance_type changes at most one attendance counter,
\* by the amount of the table: a full day, half a day for the half-day
\* leave variants, nothing for a type outside the table or absent.
C9_AttendanceCounters ==
    monthly_pc = "done"
        => \A c \in AttendanceCounters :
               monthly_summary[c] = SumOfTable(daily_records, c)

\* a half-day leave and an absence: half a day of paid leave, one absence
C9_WitnessHalfDay ==
    /\ monthly_pc = "done"
    /\ daily_records
           = <<Day(EmptySummary, ATT_HALF_PM, None),
               Day(EmptySummary, ATT_ABSENCE, None)>>
    /\ monthly_summary.paid_holidays = 1
    /\ monthly_summary.absent_days = 2
    /\ monthly_summary.late_days = 0

\* ---------------------------------------------------------------------
\* app.py: the request handlers over the database
\* ---------------------------------------------------------------------

\* the fallback of get_owner_id() when num.id is missing or unreadable
get_owner_id == 1

\* employee ids a request can carry: 0, falsy as None and "" are, the
\* owner, and another employee
EmployeeIds == {0, get_owner_id, 2}

\* records a request list can hold
MaxRecords == 1

\* the month the requests are about
YEAR == 2025

MONTH == 4

\* datetime.now().strftime('%Y-%m-%d')
today_str == <<"today">>

\* f"{year}-{month:02d}-{day:02d}"
date_str(year, month, day) ==
    IntToStr(year) \o <<"-">> \o Pad2(month) \o <<"-">> \o Pad2(day)

ManualKeys ==
    {"absent_days", "paid_holidays", "compensatory_holidays",
     "substitute_holidays", "late_days", "early_leave_days",
     "holiday_work_days"}

\* all([...]) fails on 0, None, "" and []
Falsy(x) == x = 0

\* cursor.lastrowid of an INSERT: one past the largest id of the table
lastrowid(ids) ==
    IF ids = {} THEN 1
    ELSE (CHOOSE i \in ids : \A j \in ids : j <= i) + 1

\* SELECT report_id FROM monthly_reports WHERE employee_id, year, month
select_reports(reports, employee_id, year, month) ==
    {r \in reports : /\ r.employee_id = employee_id
                     /\ r.year = year
                     /\ r.month = month}

\* cursor.fetchone() over monthly_reports: the row of the least id
fetchone_report(rows) ==
    CHOOSE r \in rows : \A o \in rows : r.report_id <= o.report_id

\* SELECT record_id FROM work_records WHERE employee_id = ? AND date = ?
select_records(records, employee_id, date) ==
    {r \in records : r.employee_id = employee_id /\ r.date = date}

\* cursor.fetchone() over work_records: the row of the least id
fetchone_record(rows) ==
    CHOOSE r \in rows : \A o \in rows : r.record_id <= o.record_id

\* step 1 of save_work_records: UPDATE the report of the month or INSERT it
upsert_report(reports, employee_id, year, month, special_notes, summary) ==
    LET rows == select_reports(reports, employee_id, year, month)
        report_params == [k \in ManualKeys |-> Get(summary, k, None)]
    IN IF rows # {}
       THEN LET report_row == fetchone_report(rows)
            IN (reports \ {report_row}) \cup
               {[report_row EXCEPT !.special_notes = special_notes,
                                   !.manual = report_params]}
       ELSE reports \cup
            {[report_id     |-> lastrowid({r.report_id : r \in reports}),
              employee_id   |-> employee_id,
              year          |-> year,
              month         |-> month,
              special_notes |-> special_notes,
              approval_date |-> None,
              manual        |-> report_params]}

\* if client_id and project_id and work_time is not None
valid_detail(detail) ==
    /\ ~Falsy(detail.client_id)
    /\ ~Falsy(detail.project_id)
    /\ "work_time" \in DOMAIN detail

\* the INSERTs of the details without the DELETE before them
replace_details_appending(table, record_id, details) ==
    LET valid == SelectSeq(details, valid_detail)
    IN table \o [i \in 1..Len(valid) |->
                    [record_id  |-> record_id,
                     client_id  |-> valid[i].client_id,
                     project_id |-> valid[i].project_id,
                     work_time  |-> valid[i].work_time]]

\* DELETE FROM work_record_details WHERE record_id = ?, then one INSERT
\* for every valid detail of the request
replace_details(table, record_id, details) ==
    LET kept  == SelectSeq(table, LAMBDA d : d.record_id # record_id)
        valid == SelectSeq(details, valid_detail)
    IN kept \o [i \in 1..Len(valid) |->
                   [record_id  |-> record_id,
                    client_id  |-> valid[i].client_id,
                    project_id |-> valid[i].project_id,
                    work_time  |-> valid[i].work_time]]

\* steps 2 and 3 of save_work_records for one record of the request
save_work_record(db, employee_id, year, month, rec) ==
    IF "day" \notin DOMAIN rec THEN db
    ELSE LET date == date_str(year, month, rec.day)
             rows == select_records(db.work_records, employee_id, date)
             record_id == IF rows # {} THEN fetchone_record(rows).record_id
                          ELSE lastrowid({r.record_id : r \in db.work_records})
             written ==
                 IF rows # {}
                 THEN LET record_row == fetchone_record(rows)
                      IN (db.work_records \ {record_row}) \cup
                         {[record_row EXCEPT !.start_time = rec.start_time,
                                             !.end_time = rec.end_time,
                                             !.break_time = rec.break_time,
                                             !.work_content = rec.work_content]}
                 ELSE db.work_records \cup
                      {[record_id        |-> record_id,
                        employee_id      |-> employee_id,
                        date             |-> date,
                        holiday_type     |-> None,
                        attendance_type  |-> None,
                        start_time       |-> rec.start_time,
                        end_time         |-> rec.end_time,
                        break_time       |-> rec.break_time,
                        night_break_time |-> None,
                        work_content     |-> rec.work_content]}
         IN [work_records |-> written,
             details |-> replace_details(db.details, record_id,
                                         Get(rec, "details", <<>>))]

RECURSIVE save_work_record_loop(_, _, _, _, _)
\* for record in records
save_work_record_loop(db, employee_id, year, month, records) ==
    IF records = <<>> THEN db
    ELSE save_work_record_loop(
             save_work_record(db, employee_id, year, month, Head(records)),
             employee_id, year, month, Tail(records))

\* full_day_off_types = [2, 3, 6, 7], as the tokens of the codes
full_day_off_types == {<<"2">>, <<"3">>, <<"6">>, <<"7">>}

\* the loop body storing the times as the request carries them
save_attendance_record_as_sent(records, employee_id, rec) ==
    IF ~Truthy(rec.date) THEN records
    ELSE LET rows == select_records(records, employee_id, rec.date)
         IN IF rows # {}
            THEN LET record_row == fetchone_record(rows)
                 IN (records \ {record_row}) \cup
                    {[record_row EXCEPT
                         !.holiday_type = rec.holiday_type,
                         !.attendance_type = rec.attendance_type,
                         !.start_time = rec.start_time,
                         !.end_time = rec.end_time,
                         !.break_time = rec.break_time,
                         !.night_break_time = rec.night_break_time,
                         !.work_content = rec.remarks]}
            ELSE records \cup
                 {[record_id        |-> lastrowid({r.record_id : r \in records}),
                   employee_id      |-> employee_id,
                   date             |-> rec.date,
                   holiday_type     |-> rec.holiday_type,
                   attendance_type  |-> rec.attendance_type,
                   start_time       |-> rec.start_time,
                   end_time         |-> rec.end_time,
                   break_time       |-> rec.break_time,
                   night_break_time |-> rec.night_break_time,
                   work_content     |-> rec.remarks]}

\* the loop body of save_attendance_records for one record of the request
save_attendance_record(records, employee_id, rec) ==
    IF ~Truthy(rec.date) THEN records
    ELSE LET rows == select_records(records, employee_id, rec.date)
             off  == rec.attendance_type \in full_day_off_types
             zero == <<"0", "0", ":", "0", "0">>
             params ==
                 [holiday_type     |-> rec.holiday_type,
                  attendance_type  |-> rec.attendance_type,
                  start_time       |-> IF off THEN zero ELSE rec.start_time,
                  end_time         |-> IF off THEN zero ELSE rec.end_time,
                  break_time       |-> IF off THEN zero ELSE rec.break_time,
                  night_break_time |-> IF off THEN zero
                                       ELSE rec.night_break_time,
                  work_content     |-> rec.remarks]
         IN IF rows # {}
            THEN LET record_row == fetchone_record(rows)
                 IN (records \ {record_row}) \cup
                    {[record_row EXCEPT
                         !.holiday_type = params.holiday_type,
                         !.attendance_type = params.attendance_type,
                         !.start_time = params.start_time,
                         !.end_time = params.end_time,
                         !.break_time = params.break_time,
                         !.night_break_time = params.night_break_time,
                         !.work_content = params.work_content]}
            ELSE records \cup
                 {[record_id        |-> lastrowid({r.record_id : r \in records}),
                   employee_id      |-> employee_id,
                   date             |-> rec.date,
                   holiday_type     |-> params.holiday_type,
                   attendance_type  |-> params.attendance_type,
                   start_time       |-> params.start_time,
                   end_time         |-> params.end_time,
                   break_time       |-> params.break_time,
                   night_break_time |-> params.night_break_time,
                   work_content     |-> params.work_content]}

RECURSIVE save_attendance_record_loop(_, _, _)
\* for record in records
save_attendance_record_loop(records, employee_id, reqs) ==
    IF reqs = <<>> THEN records
    ELSE save_attendance_record_loop(
             save_attendance_record(records, employee_id, Head(reqs)),
             employee_id, Tail(reqs))

\* step 1 of save_daily_report: UPDATE every row of the day or INSERT one
upsert_daily_report(reports, employee_id, date, data) ==
    LET exists == {r \in reports : r.employee_id = employee_id /\ r.date = date}
        row == [employee_id    |-> employee_id,
                date           |-> date,
                work_summary   |-> Get(data, "work_summary", None),
                problems       |-> Get(data, "problems", None),
                challenges     |-> Get(data, "challenges", None),
                tomorrow_tasks |-> Get(data, "tomorrow_tasks", None),
                thoughts       |-> Get(data, "thoughts", None)]
    IN (reports \ exists) \cup {row}

\* step 2 of save_daily_report: the work record of the day
upsert_daily_work_record(records, employee_id, date, data) ==
    LET rows == select_records(records, employee_id, date)
        work_summary == Get(data, "work_summary", None)
        start_time   == Get(data, "start_time", None)
        end_time     == Get(data, "end_time", None)
        break_time   == Get(data, "break_time", None)
    IN IF rows # {}
       THEN LET record_row == fetchone_record(rows)
            IN (records \ {record_row}) \cup
               {[record_row EXCEPT !.work_content = work_summary,
                                   !.start_time = start_time,
                                   !.end_time = end_time,
                                   !.break_time = break_time]}
       ELSE records \cup
            {[record_id        |-> lastrowid({r.record_id : r \in records}),
              employee_id      |-> employee_id,
              date             |-> date,
              holiday_type     |-> None,
              attendance_type  |-> None,
              start_time       |-> start_time,
              end_time         |-> end_time,
              break_time       |-> break_time,
              night_break_time |-> None,
              work_content     |-> work_summary]}

\* ---- the requests the handlers are driven with ----

\* the first of the month
Dates == {date_str(YEAR, MONTH, 1)}

\* special_notes and monthly_summary of a request: both left out, or a
\* note with the manual counts of a month
ReportRequests ==
    {[special_notes |-> None, monthly_summary |-> [k \in {} |-> None]],
     [special_notes |-> <<"note">>,
      monthly_summary |-> [absent_days |-> <<"1">>,
                           paid_holidays |-> <<"2">>]]}

\* one valid detail, and one that names no client
Detail == [client_id |-> 1, project_id |-> 1, work_time |-> 480]

DetailNoClient == [client_id |-> 0, project_id |-> 1, work_time |-> 60]

RECURSIVE ListsUpTo(_, _)
\* the lists of at most n elements of S
ListsUpTo(S, n) ==
    IF n = 0 THEN {<<>>}
    ELSE LET shorter == ListsUpTo(S, n - 1)
         IN shorter \cup {Append(l, x) : l \in shorter, x \in S}

\* a day with its details, a day without the key 'details', and a
\* record without the key 'day'
WorkRecordRequests ==
    {[day |-> 1, start_time |-> ClockText(9 * 60),
      end_time |-> ClockText(18 * 60), break_time |-> ClockText(60),
      work_content |-> <<"dev">>,
      details |-> <<Detail, DetailNoClient>>],
     [day |-> 1, start_time |-> ClockText(9 * 60),
      end_time |-> ClockText(18 * 60), break_time |-> ClockText(60),
      work_content |-> <<"dev">>],
     [start_time |-> ClockText(9 * 60), end_time |-> ClockText(18 * 60),
      break_time |-> ClockText(60), work_content |-> <<"dev">>]}

\* a day at work (1), a day of paid leave (3) sent with the times the
\* form still shows, and a record with an empty date
AttendanceRequests ==
    {[date |-> date, holiday_type |-> None, attendance_type |-> t,
      start_time |-> ClockText(9 * 60), end_time |-> ClockText(18 * 60),
      break_time |-> ClockText(60), night_break_time |-> ClockText(0),
      remarks |-> <<"dev">>] : date \in Dates, t \in {<<"1">>, <<"3">>}}
    \cup
    {[date |-> <<>>, holiday_type |-> None, attendance_type |-> <<"1">>,
      start_time |-> ClockText(9 * 60), end_time |-> ClockText(18 * 60),
      break_time |-> ClockText(60), night_break_time |-> ClockText(0),
      remarks |-> <<"dev">>]}

\* a report with an empty list of details, one without the key
\* 'details', and one with an empty date
DailyReportRequests ==
    {[date |-> date, work_summary |-> <<"report">>,
      start_time |-> ClockText(9 * 60), end_time |-> ClockText(18 * 60),
      break_time |-> ClockText(60), details |-> <<>>] : date \in Dates}
    \cup
    {[date |-> date, work_summary |-> <<"report">>,
      start_time |-> ClockText(9 * 60), end_time |-> ClockText(18 * 60),
      break_time |-> ClockText(60)] : date \in Dates \cup {<<>>}}

\* ---- the handlers ----

Answer(handler, employee_id, code) ==
    [handler |-> handler, employee_id |-> employee_id, code |-> code]

\* POST /api/work_records
save_work_records ==
    \E employee_id \in EmployeeIds :
        /\ UNCHANGED non_app_vars
        /\ IF Falsy(employee_id)
           THEN /\ response' = Answer("save_work_records", employee_id, 400)
                /\ UNCHANGED db_vars
           ELSE IF employee_id # get_owner_id
           THEN /\ response' = Answer("save_work_records", employee_id, 403)
                /\ UNCHANGED db_vars
           ELSE \E data \in ReportRequests,
                   records \in ListsUpTo(WorkRecordRequests, MaxRecords) :
                    LET db == save_work_record_loop(
                                  [work_records |-> work_records,
                                   details |-> work_record_details],
                                  employee_id, YEAR, MONTH, records)
                    IN /\ monthly_reports' =
                              upsert_report(monthly_reports, employee_id,
                                            YEAR, MONTH, data.special_notes,
                                            data.monthly_summary)
                       /\ work_records' = db.work_records
                       /\ work_record_details' = db.details
                       /\ UNCHANGED daily_reports
                       /\ response' =
                              Answer("save_work_records", employee_id, 200)

\* approve_monthly_report writing the report anew (INSERT OR REPLACE)
approve_monthly_report_replacing ==
    \E employee_id \in EmployeeIds :
        /\ UNCHANGED <<non_app_vars, work_records, work_record_details,
                       daily_reports>>
        /\ IF Falsy(employee_id)
           THEN /\ response' = Answer("approve_monthly_report", employee_id, 400)
                /\ UNCHANGED monthly_reports
           ELSE IF employee_id # get_owner_id
           THEN /\ response' = Answer("approve_monthly_report", employee_id, 403)
                /\ UNCHANGED monthly_reports
           ELSE LET rows == select_reports(monthly_reports, employee_id,
                                           YEAR, MONTH)
                IN /\ monthly_reports' =
                          (monthly_reports \ rows) \cup
                               {[report_id |->
                                     lastrowid({r.report_id :
                                                   r \in monthly_reports}),
                                 employee_id   |-> employee_id,
                                 year          |-> YEAR,
                                 month         |-> MONTH,
                                 special_notes |-> None,
                                 approval_date |-> today_str,
                                 manual        |-> [k \in ManualKeys |-> None]]}
                   /\ response' =
                          Answer("approve_monthly_report", employee_id, 200)

\* POST /api/monthly_reports/approve
approve_monthly_report ==
    \E employee_id \in EmployeeIds :
        /\ UNCHANGED <<non_app_vars, work_records, work_record_details,
                       daily_reports>>
        /\ IF Falsy(employee_id)
           THEN /\ response' = Answer("approve_monthly_report", employee_id, 400)
                /\ UNCHANGED monthly_reports
           ELSE IF employee_id # get_owner_id
           THEN /\ response' = Answer("approve_monthly_report", employee_id, 403)
                /\ UNCHANGED monthly_reports
           ELSE LET rows == select_reports(monthly_reports, employee_id,
                                           YEAR, MONTH)
                IN /\ monthly_reports' =
                          IF rows # {}
                          THEN LET report_row == fetchone_report(rows)
                               IN (monthly_reports \ {report_row}) \cup
                                  {[report_row EXCEPT
                                       !.approval_date = today_str]}
                          ELSE monthly_reports \cup
                               {[report_id |->
                                     lastrowid({r.report_id :
                                                   r \in monthly_reports}),
                                 employee_id   |-> employee_id,
                                 year          |-> YEAR,
                                 month         |-> MONTH,
                                 special_notes |-> None,
                                 approval_date |-> today_str,
                                 manual        |-> [k \in ManualKeys |-> None]]}
                   /\ response' =
                          Answer("approve_monthly_report", employee_id, 200)

\* cancel_approval that creates the missing report before it answers 404
cancel_approval_creating ==
    \E employee_id \in EmployeeIds :
        /\ UNCHANGED <<non_app_vars, work_records, work_record_details,
                       daily_reports>>
        /\ IF Falsy(employee_id)
           THEN /\ response' = Answer("cancel_approval", employee_id, 400)
                /\ UNCHANGED monthly_reports
           ELSE IF employee_id # get_owner_id
           THEN /\ response' = Answer("cancel_approval", employee_id, 403)
                /\ UNCHANGED monthly_reports
           ELSE LET rows == select_reports(monthly_reports, employee_id,
                                           YEAR, MONTH)
                IN IF rows # {}
                   THEN LET report_row == fetchone_report(rows)
                        IN /\ monthly_reports' =
                                  (monthly_reports \ {report_row}) \cup
                                  {[report_row EXCEPT !.approval_date = None]}
                           /\ response' =
                                  Answer("cancel_approval", employee_id, 200)
                   ELSE /\ response' =
                               Answer("cancel_approval", employee_id, 404)
                        /\ monthly_reports' =
                               upsert_report(monthly_reports, employee_id,
                                             YEAR, MONTH, None,
                                             [k \in {} |-> None])

\* POST /api/monthly_reports/cancel_approval
cancel_approval ==
    \E employee_id \in EmployeeIds :
        /\ UNCHANGED <<non_app_vars, work_records, work_record_details,
                       daily_reports>>
        /\ IF Falsy(employee_id)
           THEN /\ response' = Answer("cancel_approval", employee_id, 400)
                /\ UNCHANGED monthly_reports
           ELSE IF employee_id # get_owner_id
           THEN /\ response' = Answer("cancel_approval", employee_id, 403)
                /\ UNCHANGED monthly_reports
           ELSE LET rows == select_reports(monthly_reports, employee_id,
                                           YEAR, MONTH)
                IN IF rows # {}
                   THEN LET report_row == fetchone_report(rows)
                        IN /\ monthly_reports' =
                                  (monthly_reports \ {report_row}) \cup
                                  {[report_row EXCEPT !.approval_date = None]}
                           /\ response' =
                                  Answer("cancel_approval", employee_id, 200)
                   ELSE /\ response' =
                               Answer("cancel_approval", employee_id, 404)
                        /\ UNCHANGED monthly_reports

\* POST /api/attendance_records
save_attendance_records ==
    \E employee_id \in EmployeeIds :
        /\ UNCHANGED <<non_app_vars, monthly_reports, work_record_details,
                       daily_reports>>
        /\ IF Falsy(employee_id)
           THEN /\ response' =
                       Answer("save_attendance_records", employee_id, 400)
                /\ UNCHANGED work_records
           ELSE \E records \in ListsUpTo(AttendanceRequests, MaxRecords) :
                    /\ work_records' =
                           save_attendance_record_loop(work_records,
                                                       employee_id, records)
                    /\ response' =
                           Answer("save_attendance_records", employee_id, 200)

\* POST /api/daily_report
save_daily_report ==
    \E employee_id \in EmployeeIds, data \in DailyReportRequests :
        /\ UNCHANGED <<non_app_vars, monthly_reports>>
        /\ IF Falsy(employee_id) \/ ~Truthy(data.date)
           THEN /\ response' = Answer("save_daily_report", employee_id, 400)
                /\ UNCHANGED <<work_records, work_record_details,
                               daily_reports>>
           ELSE LET written == upsert_daily_work_record(
                                   work_records, employee_id, data.date, data)
                    record_id ==
                        fetchone_record(select_records(
                            written, employee_id, data.date)).record_id
                IN /\ daily_reports' =
                          upsert_daily_report(daily_reports, employee_id,
                                              data.date, data)
                   /\ work_records' = written
                   /\ work_record_details' =
                          IF "details" \in DOMAIN data
                          THEN replace_details(work_record_details, record_id,
                                               data.details)
                          ELSE work_record_details
                   /\ response' = Answer("save_daily_report", employee_id, 200)

Init ==
    /\ IdleCodec
    /\ IdleLateNight
    /\ IdleDaily
    /\ IdleMonthly
    /\ IdleApp
    /\ IdleRace

Next ==
    \/ save_work_records
    \/ approve_monthly_report
    \/ cancel_approval
    \/ save_attendance_records
    \/ save_daily_report

Spec == Init /\ [][Next]_vars

----------------------------------------------------------------------------
(* Concurrent requests. app.run() serves each request on its own thread    *)
(* with its own connection; a handler first SELECTs the report of the      *)
(* month outside any transaction and then writes and commits in one. A     *)
(* request is therefore two steps: the SELECT, and the write with commit.  *)

\* requests served at the same time
MaxInFlight == 2

\* the row id a SELECT that found nothing leaves in report_row
NoRow == 0

\* UPDATE monthly_reports SET special_notes, the manual counts
\* WHERE report_id = ?
update_report(reports, report_id, special_notes, summary) ==
    {IF r.report_id = report_id
     THEN [r EXCEPT !.special_notes = special_notes,
                    !.manual = [k \in ManualKeys |-> Get(summary, k, None)]]
     ELSE r : r \in reports}

\* UPDATE monthly_reports SET approval_date = ? WHERE report_id = ?
update_approval(reports, report_id, approval_date) ==
    {IF r.report_id = report_id
     THEN [r EXCEPT !.approval_date = approval_date]
     ELSE r : r \in reports}

\* INSERT INTO monthly_reports (...)
insert_report(reports, employee_id, year, month, special_notes, summary, approval_date) ==
    reports \cup
    {[report_id     |-> lastrowid({r.report_id : r \in reports}),
      employee_id   |-> employee_id,
      year          |-> year,
      month         |-> month,
      special_notes |-> special_notes,
      approval_date |-> approval_date,
      manual        |-> [k \in ManualKeys |-> Get(summary, k, None)]]}

\* the INSERT raises sqlite3.IntegrityError: the key is UNIQUE and taken
IntegrityError(reports, employee_id, year, month, unique) ==
    unique /\ select_reports(reports, employee_id, year, month) # {}

\* the SELECT of a handler: the report_id read, or NoRow
select_report_id(reports, employee_id, year, month) ==
    LET rows == select_reports(reports, employee_id, year, month)
    IN IF rows = {} THEN NoRow ELSE fetchone_report(rows).report_id

\* the write and commit of a handler that read report_row before: the
\* tables it leaves and the status it answers
write_request(db, req, report_row, unique) ==
    IF report_row = NoRow
       /\ IntegrityError(db.monthly_reports, get_owner_id, YEAR, MONTH, unique)
    THEN [db |-> db, code |-> 500]
    ELSE IF req.handler = "approve_monthly_report"
    THEN [db |-> [db EXCEPT !.monthly_reports =
                     IF report_row # NoRow
                     THEN update_approval(@, report_row, today_str)
                     ELSE insert_report(@, get_owner_id, YEAR, MONTH, None,
                                        [k \in {} |-> None], today_str)],
          code |-> 200]
    ELSE LET saved == save_work_record_loop(
                          [work_records |-> db.work_records,
                           details |-> db.work_record_details],
                          get_owner_id, YEAR, MONTH, req.records)
         IN [db |-> [monthly_reports |->
                         IF report_row # NoRow
                         THEN update_report(db.monthly_reports, report_row,
                                            req.data.special_notes,
                                            req.data.monthly_summary)
                         ELSE insert_report(db.monthly_reports, get_owner_id,
                                            YEAR, MONTH,
                                            req.data.special_notes,
                                            req.data.monthly_summary, None),
                     work_records |-> saved.work_records,
                     work_record_details |-> saved.details],
             code |-> 200]

\* the owner's requests that meet: saves of a month and approvals of it
RaceRequests ==
    {[handler |-> "save_work_records", data |-> data, records |-> records] :
        data \in ReportRequests,
        records \in ListsUpTo(WorkRecordRequests, 1)}
    \cup {[handler |-> "approve_monthly_report"]}

Database ==
    [monthly_reports |-> monthly_reports, work_records |-> work_records,
     work_record_details |-> work_record_details]

InitRace ==
    /\ IdleCodec
    /\ IdleLateNight
    /\ IdleDaily
    /\ IdleMonthly
    /\ IdleApp
    /\ schema_unique \in BOOLEAN
    /\ inflight \in [1..MaxInFlight ->
                         [req : RaceRequests, pc : {"start"},
                          report_row : {NoRow}, code : {0}]]

\* cursor.fetchone() of the SELECT on monthly_reports
race_select(i) ==
    /\ inflight[i].pc = "start"
    /\ inflight' = [inflight EXCEPT
                       ![i].pc = "selected",
                       ![i].report_row =
                           select_report_id(monthly_reports, get_owner_id,
                                            YEAR, MONTH)]
    /\ UNCHANGED <<calc_vars, app_vars, schema_unique>>

\* the UPDATE or INSERT, the loop over the records, and db.commit(); or
\* db.rollback() and 500 when the INSERT raises
race_write(i) ==
    /\ inflight[i].pc = "selected"
    /\ LET result == write_request(Database, inflight[i].req,
                                   inflight[i].report_row, schema_unique)
       IN /\ monthly_reports' = result.db.monthly_reports
          /\ work_records' = result.db.work_records
          /\ work_record_details' = result.db.work_record_details
          /\ response' = Answer(inflight[i].req.handler, get_owner_id,
                                result.code)
          /\ inflight' = [inflight EXCEPT ![i].pc = "done",
                                          ![i].code = result.code]
    /\ UNCHANGED <<calc_vars, daily_reports, schema_unique>>

NextRace == \E i \in 1..MaxInFlight : race_select(i) \/ race_write(i)

SpecRace == InitRace /\ [][NextRace]_vars

----------------------------------------------------------------------------
(* GET /api/work_records/<employee_id>/<year>/<month>                      *)

\* calendar.monthrange(year, month)[1]
num_days(year, month) ==
    IF month = 2
    THEN (IF (year % 4 = 0 /\ year % 100 # 0) \/ year % 400 = 0
          THEN 29 ELSE 28)
    ELSE IF month \in {4, 6, 9, 11} THEN 30 ELSE 31

\* datetime(year, month, day).weekday(): 0 is Monday, 6 is Sunday
weekday(year, month, day) ==
    LET shift == <<0, 3, 2, 5, 0, 3, 5, 1, 4, 6, 2, 4>>
        y     == IF month < 3 THEN year - 1 ELSE year
        sunday_first == (y + (y \div 4) - (y \div 100) + (y \div 400)
                           + shift[month] + day) % 7
    IN (sunday_first + 6) % 7

\* the holidays table of the year 2025 as init_db.py fills it: (month, day)
holidays_2025 ==
    {<<1, 1>>, <<1, 13>>, <<2, 11>>, <<2, 23>>, <<2, 24>>, <<3, 20>>,
     <<4, 29>>, <<5, 3>>, <<5, 4>>, <<5, 5>>, <<5, 6>>, <<7, 21>>,
     <<8, 11>>, <<9, 15>>, <<9, 23>>, <<10, 13>>, <<11, 3>>, <<11, 23>>,
     <<11, 24>>}

\* SELECT date FROM holidays WHERE strftime('%Y', date) = year
holidays_set(year) ==
    IF year = 2025 THEN {date_str(year, h[1], h[2]) : h \in holidays_2025}
    ELSE {}

\* the clients and projects tables as init_db.py fills them
client_name == [c \in 1..3 |-> <<"client", c>>]

project_name == [p \in 1..3 |-> <<"project", p>>]

\* strftime('%Y', date) = year_str AND strftime('%m', date) = month_str
in_month(date, year, month) ==
    /\ Len(date) = 10
    /\ SubSeq(date, 1, 4) = IntToStr(year)
    /\ SubSeq(date, 6, 7) = Pad2(month)

\* CAST(strftime('%d', date) AS INTEGER)
day_of(date) == DigitsValue(SubSeq(date, 9, 10))

RECURSIVE rows_by_id(_)
\* the rows of a SELECT on work_records, in the order of their record_id
rows_by_id(rows) ==
    IF rows = {} THEN <<>>
    ELSE LET first == fetchone_record(rows)
         IN <<first>> \o rows_by_id(rows \ {first})

\* SELECT d.*, c.client_name, p.project_name FROM work_record_details d
\* JOIN clients c ... JOIN projects p ... WHERE d.record_id = ?
details_of(record_id) ==
    LET joined == SelectSeq(work_record_details,
                            LAMBDA d : /\ d.record_id = record_id
                                       /\ d.client_id \in DOMAIN client_name
                                       /\ d.project_id \in DOMAIN project_name)
    IN [i \in 1..Len(joined) |->
           [client_id    |-> joined[i].client_id,
            project_id   |-> joined[i].project_id,
            work_time    |-> joined[i].work_time,
            client_name  |-> client_name[joined[i].client_id],
            project_name |-> project_name[joined[i].project_id]]]

\* steps 1 and 1.5: the month's rows, each with its day and its details
records_for_display(employee_id, year, month) ==
    LET rows == rows_by_id({r \in work_records :
                               /\ r.employee_id = employee_id
                               /\ in_month(r.date, year, month)})
    IN [i \in 1..Len(rows) |->
           [record_id        |-> rows[i].record_id,
            employee_id      |-> rows[i].employee_id,
            date             |-> rows[i].date,
            day              |-> day_of(rows[i].date),
            holiday_type     |-> rows[i].holiday_type,
            attendance_type  |-> rows[i].attendance_type,
            start_time       |-> rows[i].start_time,
            end_time         |-> rows[i].end_time,
            break_time       |-> rows[i].break_time,
            night_break_time |-> rows[i].night_break_time,
            work_content     |-> rows[i].work_content,
            details          |-> details_of(rows[i].record_id)]]

\* records_map.get(day, {}): the last row of the day, or the empty dict
records_map_get(records, day) ==
    LET at == {i \in 1..Len(records) : records[i].day = day}
    IN IF at = {} THEN [k \in {} |-> None]
       ELSE records[CHOOSE i \in at : \A j \in at : j <= i]

\* the calculator's input with the break left out
calc_input_no_break(db_record, is_holiday_from_calendar) ==
    [start_time       |-> Get(db_record, "start_time", None),
     end_time         |-> Get(db_record, "end_time", None),
     break_time       |-> None,
     night_break_time |-> Get(db_record, "night_break_time", None),
     holiday_type     |-> Get(db_record, "holiday_type", None),
     is_holiday_from_calendar |-> is_holiday_from_calendar]

calc_input(db_record, is_holiday_from_calendar) ==
    [start_time       |-> Get(db_record, "start_time", None),
     end_time         |-> Get(db_record, "end_time", None),
     break_time       |-> Get(db_record, "break_time", None),
     night_break_time |-> Get(db_record, "night_break_time", None),
     holiday_type     |-> Get(db_record, "holiday_type", None),
     is_holiday_from_calendar |-> is_holiday_from_calendar]

\* date_str in holidays_set or weekday in [5, 6]
calendar_holiday(year, month, day) ==
    \/ date_str(year, month, day) \in holidays_set(year)
    \/ weekday(year, month, day) \in {5, 6}

\* step 4: one summary_input_record for every day of the month
all_daily_data_for_summary(records, year, month) ==
    [day \in 1..num_days(year, month) |->
        LET db_record == records_map_get(records, day)
        IN [attendance_type |-> Get(db_record, "attendance_type", None),
            holiday_type    |-> None,
            daily_summary   |->
                calculate_daily_summary(
                    calc_input(db_record, calendar_holiday(year, month, day)))]]

\* step 7: manual_summary_fields, 0 unless the report stores a value, and
\* monthly_summary.update(manual_summary_fields)
merge_manual(computed, reports) ==
    [k \in DOMAIN computed \cup ManualKeys |->
        IF k \in ManualKeys
        THEN (IF reports # {} /\ fetchone_report(reports).manual[k] # None
              THEN fetchone_report(reports).manual[k]
              ELSE 0)
        ELSE computed[k]]

\* int(t.split(':')[0]) or int(t.split(':')[1]) raises IndexError or
\* ValueError
clock_raises(t) ==
    LET parts == Split(t)
    IN \/ Len(parts) < 2
       \/ ~IntAccepts(parts[1])
       \/ ~IntAccepts(parts[2])

\* int(t.split(':')[0]) * 60 + int(t.split(':')[1])
clock_minutes(t) == IntValue(Split(t)[1]) * 60 + IntValue(Split(t)[2])

\* step 6: the minutes of a day as the project summary takes them
work_records_minutes(rec) ==
    IF ~(Truthy(rec.start_time) /\ Truthy(rec.end_time)) THEN 0
    ELSE IF \/ clock_raises(rec.start_time)
            \/ clock_raises(rec.end_time)
            \/ (Truthy(rec.break_time) /\ clock_raises(rec.break_time))
    THEN 0
    ELSE Max(0, clock_minutes(rec.end_time) - clock_minutes(rec.start_time)
                  - (IF Truthy(rec.break_time)
                     THEN clock_minutes(rec.break_time) ELSE 0))

RECURSIVE sum_work_time(_)
\* sum(d.get('work_time', 0) for d in record['details'])
sum_work_time(details) ==
    IF details = <<>> THEN 0
    ELSE Head(details).work_time + sum_work_time(Tail(details))

\* what a day adds for each of its details, as a fraction of minutes:
\* work_time * ratio, or an equal part when the work_times sum to zero
record_shares(rec) ==
    LET total == sum_work_time(rec.details)
        worked == work_records_minutes(rec)
    IN [i \in 1..Len(rec.details) |->
           [key |-> <<rec.details[i].client_id, rec.details[i].project_id>>,
            num |-> IF total > 0 THEN rec.details[i].work_time * worked
                    ELSE worked,
            den |-> IF total > 0 THEN total ELSE Len(rec.details)]]

RECURSIVE all_shares(_)
all_shares(records) ==
    IF records = <<>> THEN <<>>
    ELSE record_shares(Head(records)) \o all_shares(Tail(records))

RECURSIVE sum_shares(_)
\* project_summary_map[key] += ...
sum_shares(shares) ==
    IF shares = <<>> THEN [num |-> 0, den |-> 1]
    ELSE LET rest == sum_shares(Tail(shares))
         IN [num |-> Head(shares).num * rest.den + rest.num * Head(shares).den,
             den |-> Head(shares).den * rest.den]

\* round(total_minutes): to the nearest integer, a half to the even one
round(x) ==
    LET q == x.num \div x.den
        r == x.num % x.den
    IN IF 2 * r < x.den THEN q
       ELSE IF 2 * r > x.den THEN q + 1
       ELSE IF q % 2 = 0 THEN q ELSE q + 1

\* f"{math.floor(hours * 100) / 100.0:.2f}" with hours = total_minutes / 60
total_hours(x) ==
    LET hundredths == (x.num * 100) \div (x.den * 60)
    IN IntToStr(hundredths \div 100) \o <<".">> \o Pad2(hundredths % 100)

RECURSIVE sorted_keys(_)
\* the keys in the order of (client_name, project_name), which is the
\* order of the ids for the names init_db.py gives
sorted_keys(keys) ==
    IF keys = {} THEN <<>>
    ELSE LET first == CHOOSE k \in keys :
                          \A other \in keys :
                              \/ k[1] < other[1]
                              \/ (k[1] = other[1] /\ k[2] <= other[2])
         IN <<first>> \o sorted_keys(keys \ {first})

\* step 6: the minutes of the month by client and project
project_summary(records) ==
    LET shares == all_shares(records)
        keys == sorted_keys({shares[i].key : i \in 1..Len(shares)})
    IN [i \in 1..Len(keys) |->
           LET total == sum_shares(SelectSeq(shares,
                                             LAMBDA sh : sh.key = keys[i]))
           IN [client_name   |-> client_name[keys[i][1]],
               project_name  |-> project_name[keys[i][2]],
               total_hours   |-> total_hours(total),
               total_minutes |-> round(total)]]

\* step 7: special_notes and approval_date, "" and None without a report
report_fields(reports) ==
    [special_notes |->
        IF reports # {} /\ Truthy(fetchone_report(reports).special_notes)
        THEN fetchone_report(reports).special_notes ELSE <<>>,
     approval_date |->
        IF reports # {} THEN fetchone_report(reports).approval_date
        ELSE None]

\* the body of the answer
get_work_records_body(employee_id, year, month) ==
    LET records == records_for_display(employee_id, year, month)
        computed == calculate_monthly_summary(
                        all_daily_data_for_summary(records, year, month))
        reports == select_reports(monthly_reports, employee_id, year, month)
    IN [records |-> records,
        project_summary |-> project_summary(records),
        special_notes |-> report_fields(reports).special_notes,
        approval_date |-> report_fields(reports).approval_date,
        monthly_summary |-> merge_manual(computed, reports)]

\* Tuesday 2025-04-01 and Saturday 2025-04-05
Tuesday == 1

Saturday == 5

\* a day shift on either day, and a night shift with its details
ReadWorkRecordRequests ==
    {[day |-> d, start_time |-> ClockText(9 * 60),
      end_time |-> ClockText(18 * 60), break_time |-> ClockText(60),
      work_content |-> <<"dev">>] : d \in {Tuesday, Saturday}}
    \cup
    {[day |-> Tuesday, start_time |-> ClockText(22 * 60),
      end_time |-> ClockText(5 * 60), break_time |-> ClockText(60),
      work_content |-> <<"dev">>, details |-> <<Detail>>]}

ReadSaveRequests ==
    {[handler |-> "save_work_records", data |-> data, records |-> records] :
        data \in ReportRequests,
        records \in ListsUpTo(ReadWorkRecordRequests, MaxRecords)}

\* a value sqlite3 cannot bind (a JSON list sent where a text belongs):
\* execute raises sqlite3.ProgrammingError, a sqlite3.Error
Unbindable == <<"[]">>

\* the UPDATE or INSERT of the record raises
raises(rec) == "day" \in DOMAIN rec /\ rec.start_time = Unbindable

RECURSIVE written_before_error(_, _, _, _, _)
\* the loop over the records up to the first statement that raises: the
\* uncommitted tables and whether a statement raised
written_before_error(db, employee_id, year, month, records) ==
    IF records = <<>> THEN [db |-> db, raised |-> FALSE]
    ELSE IF raises(Head(records)) THEN [db |-> db, raised |-> TRUE]
    ELSE written_before_error(
             save_work_record(db, employee_id, year, month, Head(records)),
             employee_id, year, month, Tail(records))

\* the tables when the uncommitted writes stay
rollback_keeping(before, uncommitted) == uncommitted

\* db.rollback(): the tables as they were when the transaction began
rollback(before, uncommitted) == before

\* save_work_records from its first write to its commit or its rollback
save_work_records_transaction(db, req, report_row, unique) ==
    LET done == write_request(db, [req EXCEPT !.records = <<>>], report_row,
                              unique)
        loop == written_before_error(
                    [work_records |-> done.db.work_records,
                     details |-> done.db.work_record_details],
                    get_owner_id, YEAR, MONTH, req.records)
        uncommitted == [monthly_reports |-> done.db.monthly_reports,
                        work_records |-> loop.db.work_records,
                        work_record_details |-> loop.db.details]
    IN IF done.code # 200 THEN done
       ELSE IF loop.raised
       THEN [db |-> rollback(db, uncommitted), code |-> 500]
       ELSE [db |-> uncommitted, code |-> 200]

\* a day record whose start_time cannot be bound, for a day of its own
FailingRecord ==
    [day |-> Saturday + 1, start_time |-> Unbindable,
     end_time |-> ClockText(18 * 60), break_time |-> ClockText(60),
     work_content |-> <<"dev">>]

\* requests that fail at their last record, after none or one good record
FailingSaveRequests ==
    {[handler |-> "save_work_records", data |-> data,
      records |-> good \o <<FailingRecord>>] :
        data \in ReportRequests,
        good \in ListsUpTo(ReadWorkRecordRequests, 1)}

InitRead ==
    /\ IdleCodec
    /\ IdleLateNight
    /\ IdleDaily
    /\ IdleMonthly
    /\ IdleApp
    /\ IdleRace

\* POST /api/work_records by the owner, served as one unit; inflight keeps
\* the request that was served
save_month ==
    \E req \in ReadSaveRequests \cup FailingSaveRequests :
        LET report_row == select_report_id(monthly_reports, get_owner_id,
                                           YEAR, MONTH)
            result == save_work_records_transaction(Database, req, report_row,
                                                    schema_unique)
        IN /\ monthly_reports' = result.db.monthly_reports
           /\ work_records' = result.db.work_records
           /\ work_record_details' = result.db.work_record_details
           /\ response' = Answer("save_work_records", get_owner_id,
                                 result.code)
           /\ inflight' = <<[req |-> req, pc |-> "done",
                             report_row |-> report_row, code |-> result.code]>>
           /\ UNCHANGED <<calc_vars, daily_reports, schema_unique>>

\* GET /api/work_records/<employee_id>/<year>/<month>
get_work_records ==
    \E employee_id \in EmployeeIds \ {0} :
        /\ response' = [handler |-> "get_work_records",
                        employee_id |-> employee_id, code |-> 200,
                        body |-> get_work_records_body(employee_id, YEAR,
                                                       MONTH)]
        /\ UNCHANGED <<calc_vars, db_vars, race_vars>>

NextRead == save_month \/ get_work_records

SpecRead == InitRead /\ [][NextRead]_vars

----------------------------------------------------------------------------
(* The daily calculator under other values of its two thresholds           *)

\* longest shift (hours) handed to the configured calculator
MaxShift == 12

\* values (minutes) given to STANDARD_WORK_HOURS and LEGAL_WORK_HOURS
ThresholdValues == {7 * 60, 8 * 60, 9 * 60}

\* the else branch of calculate_daily_summary, the module constants being
\* standard and legal
overtime_split(actual, standard, legal) ==
    LET scheduled == Min(actual, standard)
        overtime  == Max(0, actual - scheduled)
        limit     == legal - standard
        inner     == Min(overtime, limit)
    IN [scheduled_work           |-> scheduled,
        statutory_inner_overtime |-> inner,
        statutory_outer_overtime |-> Max(0, overtime - inner)]

\* calculate_daily_summary, the module constants being standard and legal
calculate_daily_summary_configured(r, standard, legal) ==
    LET s  == _parse_time_to_timedelta(r.start_time)
        e  == _parse_time_to_timedelta(r.end_time)
        b  == _parse_time_to_timedelta(r.break_time)
        nb == _parse_time_to_timedelta(r.night_break_time)
        actual == actual_work_duration(s, e, b, nb)
        ln     == late_night_work_duration(s, e, nb)
        split  == overtime_split(actual, standard, legal)
        result ==
            IF is_holiday(r)
            THEN [working_hours            |-> actual,
                  scheduled_work           |-> 0,
                  statutory_inner_overtime |-> 0,
                  statutory_outer_overtime |-> 0,
                  late_night_work          |-> 0,
                  holiday_work             |-> actual,
                  late_night_holiday_work  |-> ln]
            ELSE [working_hours            |-> actual,
                  scheduled_work           |-> split.scheduled_work,
                  statutory_inner_overtime |-> split.statutory_inner_overtime,
                  statutory_outer_overtime |-> split.statutory_outer_overtime,
                  late_night_work          |-> ln,
                  holiday_work             |-> 0,
                  late_night_holiday_work  |-> 0]
    IN  IF s = 0 /\ e = 0 THEN ZeroSummary
        ELSE [k \in SummaryKeys |-> _format_timedelta(result[k])]

\* shifts from 09:00 of every whole length, with and without a break,
\* on a working day and on a calendar holiday
ConfiguredRecords ==
    {WorkedDay(9 * 60, (9 + h) * 60, b, 0, None, cal) :
        h \in 0..MaxShift, b \in {0, 60}, cal \in BOOLEAN}

InitConfigured ==
    /\ daily_pc = "input"
    /\ record \in ConfiguredRecords
    /\ daily_summary = None
    /\ thresholds \in [standard : ThresholdValues, legal : ThresholdValues]
    /\ IdleCodec
    /\ IdleLateNight
    /\ IdleMonthly
    /\ IdleApp
    /\ IdleRace

CalculateConfigured ==
    /\ daily_pc = "input"
    /\ daily_summary' = calculate_daily_summary_configured(
                            record, thresholds.standard, thresholds.legal)
    /\ daily_pc' = "done"
    /\ UNCHANGED <<record, thresholds, non_daily_vars>>

NextConfigured == CalculateConfigured

SpecConfigured == InitConfigured /\ [][NextConfigured]_vars

----------------------------------------------------------------------------
(* GET and POST /api/attendance_records                                    *)

\* records_map: the month's rows of the employee, each with its day
attendance_records_map(employee_id, year, month) ==
    LET rows == rows_by_id({r \in work_records :
                               /\ r.employee_id = employee_id
                               /\ in_month(r.date, year, month)})
    IN [i \in 1..Len(rows) |->
           [k \in DOMAIN rows[i] \cup {"day"} |->
               IF k = "day" THEN day_of(rows[i].date) ELSE rows[i][k]]]

\* all_daily_data: one daily_data for every day of the month
all_daily_data(employee_id, year, month) ==
    LET records == attendance_records_map(employee_id, year, month)
    IN [day \in 1..num_days(year, month) |->
           LET db_record == records_map_get(records, day)
           IN [day              |-> day,
               date             |-> date_str(year, month, day),
               weekday          |-> weekday(year, month, day),
               holiday_type     |-> Get(db_record, "holiday_type", None),
               attendance_type  |-> Get(db_record, "attendance_type", None),
               start_time       |-> Get(db_record, "start_time", None),
               end_time         |-> Get(db_record, "end_time", None),
               break_time       |-> Get(db_record, "break_time", None),
               night_break_time |-> Get(db_record, "night_break_time", None),
               remarks          |-> Get(db_record, "work_content", None),
               daily_summary    |->
                   calculate_daily_summary(
                       calc_input(db_record,
                                  calendar_holiday(year, month, day)))]]

\* the body of the answer of get_attendance_records
get_attendance_records_body(employee_id, year, month) ==
    LET daily == all_daily_data(employee_id, year, month)
    IN [daily_records   |-> daily,
        monthly_summary |-> calculate_monthly_summary(daily)]

\* the attendance codes of the form: 1 at work, 2 absence, 3 paid leave,
\* 6 compensatory leave, 7 transfer leave
AttendanceCodes == {<<"1">>} \cup full_day_off_types

\* a record of either day with every code, sent with the times the form
\* still shows
AttendanceDayRequests ==
    {[date |-> date_str(YEAR, MONTH, d), holiday_type |-> None,
      attendance_type |-> t,
      start_time |-> ClockText(9 * 60), end_time |-> ClockText(18 * 60),
      break_time |-> ClockText(60), night_break_time |-> ClockText(0),
      remarks |-> <<"dev">>] : d \in {Tuesday, Saturday}, t \in AttendanceCodes}

InitAttendance ==
    /\ IdleCodec
    /\ IdleLateNight
    /\ IdleDaily
    /\ IdleMonthly
    /\ IdleApp
    /\ IdleRace

\* POST /api/attendance_records for the owner's days
save_attendance_days ==
    \E records \in ListsUpTo(AttendanceDayRequests, MaxRecords) :
        /\ work_records' =
               save_attendance_record_loop(work_records, get_owner_id, records)
        /\ response' = Answer("save_attendance_records", get_owner_id, 200)
        /\ UNCHANGED <<non_app_vars, monthly_reports, work_record_details,
                       daily_reports>>

\* GET /api/attendance_records/<employee_id>/<year>/<month>
get_attendance_records ==
    /\ response' = [handler |-> "get_attendance_records",
                    employee_id |-> get_owner_id, code |-> 200,
                    body |-> get_attendance_records_body(get_owner_id, YEAR,
                                                         MONTH)]
    /\ UNCHANGED <<non_app_vars, db_vars>>

NextAttendance == save_attendance_days \/ get_attendance_records

SpecAttendance == InitAttendance /\ [][NextAttendance]_vars

\* ---- claims about the write handlers ----

\* the report of the month of an employee is approved once a row of it
\* carries an approval_date; before, and with no row, it is a draft
Approved(employee_id) ==
    \E r \in select_reports(monthly_reports, employee_id, YEAR, MONTH) :
        r.approval_date # None

\* the stored day records of an employee, with their details
DayRecordsOf(employee_id) ==
    LET rows == {r \in work_records : r.employee_id = employee_id}
    IN [records |-> rows,
        details |-> SelectSeq(work_record_details,
                              LAMBDA d : \E r \in rows :
                                             r.record_id = d.record_id),
        reports |-> {r \in daily_reports : r.employee_id = employee_id}]

\* the stored special notes of the month of an employee
SpecialNotesOf(employee_id) ==
    {r.special_notes :
        r \in select_reports(monthly_reports, employee_id, YEAR, MONTH)}

\* C10: day records and special notes of a month are written only while
\* the month's report is not approved and only for the employee the
\* system runs for: no request changes the stored day records or the
\* special notes of an employee whose month is approved, or of an
\* employee other than the owner.
C10_WritesOnlyInDraftByOwnEmployee ==
    [][\A e \in EmployeeIds :
          (Approved(e) \/ e # get_owner_id) =>
              /\ DayRecordsOf(e)' = DayRecordsOf(e)
              /\ SpecialNotesOf(e)' = SpecialNotesOf(e)]_vars

----------------------------------------------------------------------------
(* Further claims about the daily calculator *)

NonHolidayGroup ==
    {"scheduled_work", "statutory_inner_overtime", "statutory_outer_overtime",
     "late_night_work"}

HolidayGroup == {"holiday_work", "late_night_holiday_work"}

GroupNonZero(summary, group) == \E k \in group : summary[k] # Zero

\* C18 as stated: for every day record exactly one of the non-holiday
\* group and the holiday group is non-zero, never both and never neither.
C18_ExactlyOneGroupNonZero ==
    daily_pc = "done"
        => (GroupNonZero(daily_summary, NonHolidayGroup)
                <=> ~GroupNonZero(daily_summary, HolidayGroup))

\* C18 as amended: the two groups are never both non-zero, and on a day
\* with worked time (working_hours above zero) exactly one of them is
\* non-zero: the holiday group on a holiday, the other group otherwise.
C18_AtMostOneGroupNonZero ==
    daily_pc = "done"
        => /\ ~(GroupNonZero(daily_summary, NonHolidayGroup)
                 /\ GroupNonZero(daily_summary, HolidayGroup))
           /\ daily_summary.working_hours # Zero
                  => IF is_holiday(record)
                     THEN GroupNonZero(daily_summary, HolidayGroup)
                     ELSE GroupNonZero(daily_summary, NonHolidayGroup)

\* a calendar holiday worked 20:00-02:00: only the holiday group is filled
C18_WitnessHolidayOnly ==
    /\ daily_pc = "done"
    /\ record.is_holiday_from_calendar
    /\ record.holiday_type = None
    /\ record.start_time = ClockText(20 * 60)
    /\ record.end_time = ClockText(2 * 60)
    /\ record.break_time = None
    /\ record.night_break_time = None
    /\ daily_summary.holiday_work = <<"6", ":", "0", "0">>
    /\ daily_summary.late_night_holiday_work = <<"4", ":", "0", "0">>
    /\ ~GroupNonZero(daily_summary, NonHolidayGroup)

\* C19: the late-night buckets are a portion of the worked time:
\* late_night_work <= working_hours and late_night_holiday_work <=
\* holiday_work, whatever break_time and night_break_time are.
C19_LateNightWithinWorked ==
    daily_pc = "done"
        => /\ Minutes(daily_summary.late_night_work)
                  <= Minutes(daily_summary.working_hours)
           /\ Minutes(daily_summary.late_night_holiday_work)
                  <= Minutes(daily_summary.holiday_work)

\* C20: when at least one of start_time and end_time is absent (None or
\* empty), every bucket of the daily summary is zero and the day is not
\* counted in working_days.
C20_OneAbsentTimeGivesZero ==
    daily_pc = "done" /\ (Absent(record.start_time) \/ Absent(record.end_time))
        => /\ \A k \in SummaryKeys : daily_summary[k] = Zero
           /\ ~bucket_positive(daily_summary, "working_hours")

----------------------------------------------------------------------------
(* Claims about the approval handlers *)

\* the status of the month's report of an employee that the stored data
\* can tell: no row, a row with an approval_date, a row without one
ReportStatus(employee_id) ==
    IF select_reports(monthly_reports, employee_id, YEAR, MONTH) = {}
    THEN "none"
    ELSE IF Approved(employee_id) THEN "finalized" ELSE "draft"

\* C11: finalization, which sets approval_date, succeeds only when the
\* report's status is exactly approved; finalizing a report that has no
\* row yet, that is still a draft, or that is already finalized is
\* rejected.
C11_FinalizeOnlyFromApproved ==
    [][(response'.handler = "approve_monthly_report" /\ response'.code = 200)
          => /\ ReportStatus(response'.employee_id) \notin
                    {"none", "draft", "finalized"}
             /\ ReportStatus(response'.employee_id) = "approved"]_vars

\* the role of each employee, as init_db.py seeds the employees table
role == [e \in 1..4 |-> IF e = 2 THEN "manager"
                        ELSE IF e = 4 THEN "accounting" ELSE "employee"]

\* C12: a lifecycle transition is accepted only from the actor role
\* listed for it; finalize and un-finalize (approve_monthly_report and
\* cancel_approval, which set and clear approval_date) are accepted only
\* from an employee whose role is accounting.
C12_FinalizeOnlyByAccounting ==
    [][(/\ response'.handler \in {"approve_monthly_report", "cancel_approval"}
        /\ response'.code = 200)
          => role[response'.employee_id] = "accounting"]_vars

\* C13: a request rejected with 403 (approve_monthly_report,
\* cancel_approval or save_work_records for an employee_id that is not
\* the owner's) or with 404 (cancel_approval for a month without a
\* report) answers with that error and creates or changes no monthly
\* report, day record, detail or daily report.
C13_RejectedHasNoSideEffects ==
    [][(/\ response'.handler \in {"approve_monthly_report", "cancel_approval",
                                   "save_work_records"}
        /\ \/ response'.employee_id \notin {0, get_owner_id}
           \/ /\ response'.handler = "cancel_approval"
              /\ response'.employee_id = get_owner_id
              /\ ReportStatus(get_owner_id) = "none")
          => /\ response'.code \in {403, 404}
             /\ response'.code = 404 <=> response'.employee_id = get_owner_id
             /\ UNCHANGED db_vars]_vars

\* a cancel for a month without a report was answered 404 while the
\* owner has day records and still no report
C13_WitnessNoReport ==
    /\ response = Answer("cancel_approval", get_owner_id, 404)
    /\ monthly_reports = {}
    /\ \E r \in work_records : r.employee_id = get_owner_id

----------------------------------------------------------------------------
(* Claims about concurrent requests *)

EmptyDatabase ==
    [monthly_reports |-> {}, work_records |-> {}, work_record_details |-> <<>>]

RECURSIVE SerialOutcomes(_, _)
\* the databases that serving the requests of todo one after the other,
\* each as one unit, can leave
SerialOutcomes(db, todo) ==
    IF todo = {} THEN {db}
    ELSE UNION {SerialOutcomes(
                    write_request(db, inflight[i].req,
                                  select_report_id(db.monthly_reports,
                                                   get_owner_id, YEAR, MONTH),
                                  schema_unique).db,
                    todo \ {i}) : i \in todo}

\* C17: there is at most one monthly report per (employee, year, month)
\* in every reachable state, and once concurrent save_work_records and
\* approve_monthly_report requests for one key have all been served
\* exactly one report row exists for it and the database is what some
\* serial order of the requests leaves.
C17_OneReportPerKey ==
    /\ Cardinality(select_reports(monthly_reports, get_owner_id,
                                  YEAR, MONTH)) <= 1
    /\ (inflight # <<>> /\ \A i \in DOMAIN inflight : inflight[i].pc = "done")
          => /\ Cardinality(select_reports(monthly_reports, get_owner_id,
                                           YEAR, MONTH)) = 1
             /\ Database \in SerialOutcomes(EmptyDatabase, DOMAIN inflight)

\* served one after the other the handlers keep one report per key
C17_OneReportWhenSerial ==
    Cardinality(select_reports(monthly_reports, get_owner_id, YEAR, MONTH)) <= 1

----------------------------------------------------------------------------
(* Claims about reading a month                                            *)

GetReply == response.handler = "get_work_records"

\* C15: an employee who requests the work records of a different employee
\* is denied: get_work_records answers 403 and returns none of the other
\* employee's records, notes or summary.
C15_OtherEmployeeIsDenied ==
    (GetReply /\ response.employee_id # get_owner_id)
        => (response.code = 403 /\ "body" \notin DOMAIN response)

\* the save request that was served last, once one was answered 200
Saved == inflight # <<>> /\ inflight[1].code = 200

\* the last record of day d in the list of a request
LastOfDay(records, d) ==
    records[CHOOSE i \in 1..Len(records) :
               /\ records[i].day = d
               /\ \A j \in 1..Len(records) : records[j].day = d => j <= i]

\* the minutes one returned day record is worth to the calculator
WorkedMinutes(r) ==
    Minutes(calculate_daily_summary(
                [start_time |-> r.start_time, end_time |-> r.end_time,
                 break_time |-> r.break_time,
                 night_break_time |-> r.night_break_time,
                 holiday_type |-> r.holiday_type,
                 is_holiday_from_calendar |-> FALSE]).working_hours)

RECURSIVE TotalWorked(_)
TotalWorked(records) ==
    IF records = <<>> THEN 0
    ELSE WorkedMinutes(Head(records)) + TotalWorked(Tail(records))

OverridableCounts ==
    {"absent_days", "paid_holidays", "compensatory_holidays", "late_days",
     "early_leave_days", "holiday_work_days"}

\* the aggregator's summary of the month that a reply shows
AggregatorCounts ==
    calculate_monthly_summary(
        all_daily_data_for_summary(response.body.records, YEAR, MONTH))

\* C16: in the monthly_summary returned by get_work_records each manually
\* overridable day-count equals the stored manual value when an override
\* exists for the report, and the aggregator's computed count when none
\* exists (no report row, or the stored field is empty).
C16_OverrideElseAggregatorCount ==
    GetReply =>
        LET reports == select_reports(monthly_reports, response.employee_id,
                                      YEAR, MONTH)
        IN \A k \in OverridableCounts :
              IF reports # {} /\ fetchone_report(reports).manual[k] # None
              THEN response.body.monthly_summary[k]
                       = fetchone_report(reports).manual[k]
              ELSE response.body.monthly_summary[k] = AggregatorCounts[k]

----------------------------------------------------------------------------
(* Claims about the thresholds                                             *)

\* C21: for every configuration of the two thresholds, including a legal
\* threshold below the standard one, a non-holiday day has
\* statutory_inner_overtime = min(overtime, max(0, LEGAL - STANDARD)) and
\* statutory_outer_overtime = overtime - statutory_inner_overtime, where
\* overtime = working_hours - min(working_hours, STANDARD); neither bucket is
\* negative and their sum never exceeds the overtime.
C21_OvertimeSplitForEveryThreshold ==
    (daily_pc = "done" /\ ~is_holiday(record)) =>
        LET working  == Minutes(daily_summary.working_hours)
            overtime == working - Min(working, thresholds.standard)
            cap      == Max(0, thresholds.legal - thresholds.standard)
            inner    == Minutes(daily_summary.statutory_inner_overtime)
            outer    == Minutes(daily_summary.statutory_outer_overtime)
        IN /\ inner = Min(overtime, cap)
           /\ outer = overtime - inner
           /\ inner >= 0
           /\ outer >= 0
           /\ inner + outer <= overtime

----------------------------------------------------------------------------
(* Claims about the order of the days in the monthly aggregation           *)

\* the field-by-field sum of two monthly summaries: durations added,
\* day-counts added
SumOfSummaries(a, b) ==
    [k \in DOMAIN a |->
        IF k \in TotalKeys
        THEN _format_timedelta(Minutes(a[k]) + Minutes(b[k]))
        ELSE a[k] + b[k]]

\* the list with the days at i and i + 1 exchanged; every order of a list
\* is reached by such exchanges
Exchanged(records, i) ==
    [j \in 1..Len(records) |->
        IF j = i THEN records[i + 1]
        ELSE IF j = i + 1 THEN records[i]
        ELSE records[j]]

\* C22: monthly aggregation does not depend on day order and is
\* associative: calculate_monthly_summary gives the same result for every
\* permutation of the same daily records (here: for every exchange of two
\* neighbours, in every list), and the summary of A ++ B equals the
\* field-by-field sum of the summaries of A and of B (for every cut of
\* every list into a non-empty A and a non-empty B).
C22_OrderFreeAndAdditive ==
    monthly_pc = "done" =>
        LET n == Len(daily_records)
        IN /\ \A i \in 1..(n - 1) :
                 calculate_monthly_summary(Exchanged(daily_records, i))
                     = monthly_summary
           /\ \A i \in 1..(n - 1) :
                 SumOfSummaries(
                     calculate_monthly_summary(SubSeq(daily_records, 1, i)),
                     calculate_monthly_summary(SubSeq(daily_records, i + 1, n)))
                     = monthly_summary

\* three days that differ in hours, attendance type and holiday type
C22_WitnessThreeDifferentDays ==
    /\ monthly_pc = "done"
    /\ Len(daily_records) = 3
    /\ daily_records[1] = Day(LateShiftSummary, ATT_HALF_AM, None)
    /\ daily_records[2] = Day(HolidayNightSummary, None, HOLIDAY_STATUTORY)
    /\ daily_records[3] = Day(PartialSummary(9 * 60, 8 * 60, 60), ATT_NORMAL, None)
    /\ monthly_summary["working_days"] = 3

----------------------------------------------------------------------------
(* Claims about what approval leaves alone                                 *)

\* special_notes and the manual day-counts of the month's report; a month
\* without a report has no notes and no manual day-count
ReportContent(employee_id) ==
    LET reports == select_reports(monthly_reports, employee_id, YEAR, MONTH)
    IN IF reports = {}
       THEN [special_notes |-> None, manual |-> [k \in ManualKeys |-> None]]
       ELSE [special_notes |-> fetchone_report(reports).special_notes,
             manual        |-> fetchone_report(reports).manual]

\* the approval date get_work_records returns for the month
ReturnedApprovalDate(employee_id) ==
    report_fields(select_reports(monthly_reports, employee_id, YEAR, MONTH))
        .approval_date

\* the last request was answered 200 by the handler, for the employee
Accepted(handler, employee_id) ==
    /\ response.handler = handler
    /\ response.employee_id = employee_id
    /\ response.code = 200

\* C23: finalizing and then reversing restores the report: an accepted
\* approve_monthly_report and an accepted cancel_approval each leave
\* special_notes, the manual day-counts and every day record exactly as
\* they were, the approval sets the approval date and the cancellation
\* clears it (None, also as returned by get_work_records).
C23_ApproveThenCancelRestores ==
    [][\A e \in EmployeeIds :
          /\ (Accepted("approve_monthly_report", e)'
                 \/ Accepted("cancel_approval", e)')
                => /\ ReportContent(e)' = ReportContent(e)
                   /\ UNCHANGED <<work_records, work_record_details,
                                  daily_reports>>
          /\ Accepted("approve_monthly_report", e)'
                => ReturnedApprovalDate(e)' = today_str
          /\ Accepted("cancel_approval", e)'
                => /\ ~Approved(e)'
                   /\ ReturnedApprovalDate(e)' = None]_vars

\* a cancellation accepted on a report that carries notes, a manual
\* day-count and day records
C23_WitnessCancelledWithContent ==
    /\ Accepted("cancel_approval", get_owner_id)
    /\ ReportContent(get_owner_id).special_notes = <<"note">>
    /\ ReportContent(get_owner_id).manual["absent_days"] = <<"1">>
    /\ \E r \in work_records : r.employee_id = get_owner_id
    /\ ReturnedApprovalDate(get_owner_id) = None

----------------------------------------------------------------------------
(* Claims about repeating a write                                          *)

\* what save_work_records leaves when the owner sends data and records
AfterSaveWorkRecords(db, data, records) ==
    LET saved == save_work_record_loop(
                     [work_records |-> db.work_records,
                      details |-> db.work_record_details],
                     get_owner_id, YEAR, MONTH, records)
    IN [monthly_reports |-> upsert_report(db.monthly_reports, get_owner_id,
                                          YEAR, MONTH, data.special_notes,
                                          data.monthly_summary),
        work_records |-> saved.work_records,
        work_record_details |-> saved.details]

\* what save_attendance_records leaves
AfterSaveAttendance(db, employee_id, records) ==
    [db EXCEPT !.work_records =
        save_attendance_record_loop(@, employee_id, records)]

\* the same report rows, the same day records and, for every day record,
\* the same details
SameStorage(a, b) ==
    /\ a.monthly_reports = b.monthly_reports
    /\ a.work_records = b.work_records
    /\ \A r \in a.work_records :
          SelectSeq(a.work_record_details,
                    LAMBDA d : d.record_id = r.record_id)
            = SelectSeq(b.work_record_details,
                        LAMBDA d : d.record_id = r.record_id)
    /\ Len(a.work_record_details) = Len(b.work_record_details)

\* C24: writes are idempotent: the same successful save_work_records or
\* save_attendance_records request performed twice in a row leaves storage
\* as performing it once does (one report row with the same fields, one day
\* record per date with the same values, the same project details per day).
C24_WritesAreIdempotent ==
    /\ \A data \in ReportRequests,
          records \in ListsUpTo(WorkRecordRequests, MaxRecords) :
           LET once == AfterSaveWorkRecords(Database, data, records)
           IN SameStorage(AfterSaveWorkRecords(once, data, records), once)
    /\ \A employee_id \in EmployeeIds \ {0},
          records \in ListsUpTo(AttendanceRequests, MaxRecords) :
           LET once == AfterSaveAttendance(Database, employee_id, records)
           IN SameStorage(AfterSaveAttendance(once, employee_id, records), once)

\* a save was accepted and left a report, a day record and a detail of it
C24_WitnessSavedWithDetails ==
    /\ Accepted("save_work_records", get_owner_id)
    /\ monthly_reports # {}
    /\ \E r \in work_records :
          /\ r.employee_id = get_owner_id
          /\ \E i \in 1..Len(work_record_details) :
                work_record_details[i].record_id = r.record_id

----------------------------------------------------------------------------
(* Claims about the notation of a shift that ends on the next day          *)

\* start is a time of day and end is a time of day before it
EndsNextDay(r) ==
    /\ WellFormed(r.start_time)
    /\ WellFormed(r.end_time)
    /\ Minutes(r.start_time) < 24 * 60
    /\ Minutes(r.end_time) < Minutes(r.start_time)

\* the record with start and end moved by shift minutes, the end written
\* as a time of day or as a time past 24:00
Renoted(r, shift, past24) ==
    [r EXCEPT !.start_time = ClockText(Minutes(r.start_time) + shift),
              !.end_time = ClockText(Minutes(r.end_time) + shift
                                       + (IF past24 THEN 24 * 60 ELSE 0))]

\* C25: the two notations for a shift ending on the next day are
\* equivalent: for every start in [0:00, 24:00) and every end time of day
\* less than start, calculate_daily_summary gives the same seven buckets
\* when end_time is written "H:MM" and when it is written "(H+24):MM", for
\* the same breaks and holiday inputs.
C25_NextDayNotationsAgree ==
    (daily_pc = "done" /\ EndsNextDay(record)) =>
        /\ calculate_daily_summary(Renoted(record, 0, TRUE)) = daily_summary
        /\ Minutes(record.start_time) + 30 < 24 * 60 =>
              calculate_daily_summary(Renoted(record, 30, TRUE))
                = calculate_daily_summary(Renoted(record, 30, FALSE))

\* a night shift 22:00-05:00 without breaks: seven hours, all of them late
C25_WitnessNightShift ==
    /\ daily_pc = "done"
    /\ record.start_time = ClockText(22 * 60)
    /\ record.end_time = ClockText(5 * 60)
    /\ record.break_time = None
    /\ record.night_break_time = None
    /\ ~is_holiday(record)
    /\ daily_summary.working_hours = <<"7", ":", "0", "0">>
    /\ daily_summary.late_night_work = <<"7", ":", "0", "0">>

----------------------------------------------------------------------------
(* Claims about days off saved through the attendance form                 *)

AttendanceReply == response.handler = "get_attendance_records"

\* the owner's stored days that carry a full-day-off attendance code
DaysOff ==
    {r \in work_records :
        r.employee_id = get_owner_id /\ r.attendance_type \in full_day_off_types}

\* the daily data of a reply without the days off
WithoutDaysOff(daily) ==
    SelectSeq(daily, LAMBDA d : d.attendance_type \notin full_day_off_types)

\* C26: a day saved through save_attendance_records with a full-day-off
\* attendance type (2, 3, 6, 7) is stored with start, end, break and
\* night-break times all "00:00" whatever times the request carried, so
\* that get_attendance_records reports an all-zero daily summary for the
\* day and does not count it in working_days or in any total.
C26_DayOffStoredAndReadAsZero ==
    /\ \A r \in DaysOff :
          /\ r.start_time = ClockText(0)
          /\ r.end_time = ClockText(0)
          /\ r.break_time = ClockText(0)
          /\ r.night_break_time = ClockText(0)
    /\ AttendanceReply =>
          LET daily == response.body.daily_records
              others == calculate_monthly_summary(WithoutDaysOff(daily))
          IN /\ \A r \in DaysOff :
                   daily[day_of(r.date)].daily_summary = ZeroSummary
             /\ \A k \in TotalKeys \cup {"working_days", "holiday_work_days"} :
                   response.body.monthly_summary[k] = others[k]

\* Saturday read back as paid leave with a zero summary beside a Tuesday
\* at work
C26_WitnessLeaveBesideWork ==
    /\ AttendanceReply
    /\ response.body.daily_records[Saturday].attendance_type = <<"3">>
    /\ response.body.daily_records[Saturday].start_time = ClockText(0)
    /\ response.body.daily_records[Saturday].daily_summary = ZeroSummary
    /\ response.body.daily_records[Tuesday].attendance_type = <<"1">>
    /\ response.body.monthly_summary["working_days"] = 1
    /\ response.body.monthly_summary["total_working_hours"] = <<"8", ":", "0", "0">>

\* the counter of the monthly summary a full-day-off code stands for
LeaveCounter(code) ==
    IF code = <<"2">> THEN "absent_days"
    ELSE IF code = <<"3">> THEN "paid_holidays"
    ELSE IF code = <<"6">> THEN "compensatory_holidays"
    ELSE "transfer_holidays"

\* C27: leave days survive the save/read pipeline: every day saved through
\* save_attendance_records with a full-day-off attendance type adds exactly
\* 1 to the matching counter of the monthly_summary returned by
\* get_attendance_records (the counters are kept in half days: 1 day is 2).
C27_LeaveDaysAreCounted ==
    AttendanceReply =>
        \A code \in full_day_off_types :
            response.body.monthly_summary[LeaveCounter(code)]
                = 2 * Cardinality({r \in DaysOff : r.attendance_type = code})

----------------------------------------------------------------------------
(* Claims about a save that fails                                          *)

\* C28: save_work_records is all-or-nothing: if an error occurs while
\* writing a day record or project detail of the request, nothing of the
\* request is persisted (neither the report insert/update, nor day records
\* written earlier in the loop, nor deleted or inserted details), and
\* storage equals its state before the request.
C28_FailedSaveLeavesStorage ==
    [][(response'.handler = "save_work_records" /\ response'.code = 500)
          => UNCHANGED db_vars]_vars

\* a save failed after a good record for Saturday, on a month that holds
\* a note, Tuesday's record and its details, and nothing for Saturday
C28_WitnessFailedAfterGoodRecord ==
    /\ response.handler = "save_work_records"
    /\ response.code = 500
    /\ Len(inflight[1].req.records) = 2
    /\ inflight[1].req.records[1].day = Saturday
    /\ inflight[1].req.data.special_notes = None
    /\ SpecialNotesOf(get_owner_id) = {<<"note">>}
    /\ work_record_details # <<>>
    /\ \A r \in work_records : r.date = date_str(YEAR, MONTH, Tuesday)
    /\ work_records # {}

----------------------------------------------------------------------------
(* Claims about what a save leaves of the report                           *)

\* C29: saving day records does not erase manual overrides: an accepted
\* save_work_records request that carries no value for a manual day-count
\* (monthly_summary missing or without that key) leaves the value stored
\* for that day-count on the month's report unchanged, and no save changes
\* the report's approval date.
C29_SaveKeepsManualCounts ==
    [][Accepted("save_work_records", get_owner_id)' =>
          /\ \A k \in ManualKeys :
                k \notin DOMAIN inflight'[1].req.data.monthly_summary
                  => ReportContent(get_owner_id)'.manual[k]
                        = ReportContent(get_owner_id).manual[k]
          /\ ReturnedApprovalDate(get_owner_id)'
                = ReturnedApprovalDate(get_owner_id)]_vars

----------------------------------------------------------------------------
(* Claims about the project summary                                        *)

RECURSIVE SumOfMinutes(_)
SumOfMinutes(summary) ==
    IF summary = <<>> THEN 0
    ELSE Head(summary).total_minutes + SumOfMinutes(Tail(summary))

\* C30: project allocation conserves worked time: the minutes attributed
\* to (client, project) pairs in the project_summary of get_work_records
\* sum to the working_hours, as calculate_daily_summary computes them, of
\* the saved days that have project details, shifts that cross midnight
\* included.
C30_ProjectMinutesAreWorkedMinutes ==
    GetReply =>
        SumOfMinutes(response.body.project_summary)
            = TotalWorked(SelectSeq(response.body.records,
                                    LAMBDA r : r.details # <<>>))

====
